---- MODULE Spec2Model ----
(***************************************************************************)
(* Word-level timing of the language-learning workspace.                   *)
(*                                                                         *)
(* src/lib/word-timing.ts turns caption segments (text, start, duration)   *)
(* into per-word intervals and finds the word that is active at a playback *)
(* time; the WordByWordDisplay component memoises both results and the     *)
(* workspace page feeds it the polled playback time.                       *)
(*                                                                         *)
(* JavaScript numbers are modelled as exact rationals [n, d] in lowest     *)
(* terms with d > 0. A string is a sequence of one-character strings.      *)
(***************************************************************************)
EXTENDS Integers, Sequences, FiniteSets, TLC

(***************************************************************************)
(* Bounds of the model.                                                    *)
(***************************************************************************)
\* longest enumerated caption text handed to estimateWordTimings alone
MaxTextLen == 4
\* largest segmentIndex handed to estimateWordTimings alone
MaxIndex == 2
\* segment starts are 0..MaxStart seconds
MaxStart == 1
\* durations of the segments handed to estimateWordTimings alone are
\* -1..MaxDuration seconds
MaxDuration == 1
\* longest transcript
MaxSegments == 2
\* longest enumerated word handed to cleanWord alone
MaxWordLen == 5
MaxPending == 1
MaxSaves == 1
MaxItems == 2
MaxLoads == 2
MaxTexts == 4
MaxOps == 2
MaxAdds == 12

(***************************************************************************)
(* Rational arithmetic.                                                    *)
(***************************************************************************)
Abs(x) == IF x < 0 THEN -x ELSE x

RECURSIVE Gcd(_, _)
Gcd(a, b) == IF b = 0 THEN a ELSE Gcd(b, a % b)

\* the rational n/d (d # 0) in lowest terms with a positive denominator
Rat(n, d) ==
  LET g == Gcd(Abs(n), Abs(d))
      s == IF d < 0 THEN -1 ELSE 1
  IN  [n |-> (s * n) \div g, d |-> (s * d) \div g]

FromInt(i) == [n |-> i, d |-> 1]
Zero == FromInt(0)

RAdd(x, y) == Rat(x.n * y.d + y.n * x.d, x.d * y.d)
RSub(x, y) == Rat(x.n * y.d - y.n * x.d, x.d * y.d)
RMul(x, y) == Rat(x.n * y.n, x.d * y.d)
\* y # 0 at every use: see estimateWordTimings
RDiv(x, y) == Rat(x.n * y.d, x.d * y.n)
RLt(x, y) == x.n * y.d < y.n * x.d
RLe(x, y) == x.n * y.d <= y.n * x.d

(***************************************************************************)
(* Strings.                                                                *)
(***************************************************************************)
\* the characters /\s/ matches, among those of the enumerated texts
Whitespace == {" ", "\t"}
Chars == {"a", "B"} \cup Whitespace

RECURSIVE SplitFrom(_, _, _, _)
SplitFrom(s, i, cur, acc) ==
  IF i > Len(s) THEN Append(acc, cur)
  ELSE IF s[i] \in Whitespace
       THEN IF i > 1 /\ s[i - 1] \in Whitespace
            THEN SplitFrom(s, i + 1, cur, acc)
            ELSE SplitFrom(s, i + 1, <<>>, Append(acc, cur))
       ELSE SplitFrom(s, i + 1, Append(cur, s[i]), acc)

\* text.split(/\s+/): the pieces between maximal whitespace runs; a leading
\* or trailing run leaves an empty piece, and "" splits to [""]
SplitWhitespace(s) == SplitFrom(s, 1, <<>>, <<>>)

\* .filter(w => w.length > 0)
NonEmptyTokens(pieces) == SelectSeq(pieces, LAMBDA w : Len(w) > 0)

(***************************************************************************)
(* src/lib/word-timing.ts                                                  *)
(***************************************************************************)
\* wordDuration without the length adjustment (line 40's "divide equally")
wordDurationEqualShare(word, text, nWords, duration) ==
  RDiv(duration, FromInt(nWords))

\* wordDuration with the factor taken as the deviation from the average length
wordDurationDeviation(word, text, nWords, duration) ==
  LET timePerWord == RDiv(duration, FromInt(nWords))
      avgWordLength == RDiv(FromInt(Len(text)), FromInt(nWords))
      lengthFactor == RDiv(RSub(FromInt(Len(word)), avgWordLength), avgWordLength)
  IN  RMul(timePerWord, lengthFactor)

\* lines 41 and 48-53: timePerWord * (word.length / (text.length / words.length)).
\* It is evaluated only for a token of the text, so text.length >= 1 and
\* nWords >= 1 and neither division is by zero.
wordDuration(word, text, nWords, duration) ==
  LET timePerWord == RDiv(duration, FromInt(nWords))
      wordLength == Len(word)
      avgWordLength == RDiv(FromInt(Len(text)), FromInt(nWords))
      lengthFactor == RDiv(FromInt(wordLength), avgWordLength)
  IN  RMul(timePerWord, lengthFactor)

\* wordRecord with a 1-based wordIndex
wordRecordOneBased(word, cur, dur, idx, index) ==
  [word |-> word, start |-> cur, end |-> RAdd(cur, dur),
   segmentIndex |-> idx, wordIndex |-> index + 1]

\* lines 55-61: the record pushed for words[index + 1] (index is 0-based)
wordRecord(word, cur, dur, idx, index) ==
  [word |-> word, start |-> cur, end |-> RAdd(cur, dur),
   segmentIndex |-> idx, wordIndex |-> index]

\* forEachWord without line 63: the cursor is never advanced
RECURSIVE forEachWordNoAdvance(_, _, _, _, _, _)
forEachWordNoAdvance(seg, idx, words, index, cur, out) ==
  IF index >= Len(words) THEN out
  ELSE LET word == words[index + 1]
           dur == wordDuration(word, seg.text, Len(words), seg.duration)
       IN  forEachWordNoAdvance(seg, idx, words, index + 1, cur,
                                Append(out, wordRecord(word, cur, dur, idx, index)))

\* forEachWord with the cursor advanced by timePerWord instead of wordDuration
RECURSIVE forEachWordEqualStep(_, _, _, _, _, _)
forEachWordEqualStep(seg, idx, words, index, cur, out) ==
  IF index >= Len(words) THEN out
  ELSE LET word == words[index + 1]
           dur == wordDuration(word, seg.text, Len(words), seg.duration)
           timePerWord == RDiv(seg.duration, FromInt(Len(words)))
       IN  forEachWordEqualStep(seg, idx, words, index + 1, RAdd(cur, timePerWord),
                                Append(out, wordRecord(word, cur, dur, idx, index)))

\* lines 46-64: words.forEach from 0-based position index on, with the running
\* cursor cur (currentTime of the source) and the records pushed so far
RECURSIVE forEachWord(_, _, _, _, _, _)
forEachWord(seg, idx, words, index, cur, out) ==
  IF index >= Len(words) THEN out
  ELSE LET word == words[index + 1]
           dur == wordDuration(word, seg.text, Len(words), seg.duration)
       IN  forEachWord(seg, idx, words, index + 1, RAdd(cur, dur),
                       Append(out, wordRecord(word, cur, dur, idx, index)))

\* line 34
splitWords(text) == NonEmptyTokens(SplitWhitespace(text))

estimateWordTimings(seg, idx) ==
  LET words == splitWords(seg.text)
  IN  IF Len(words) = 0 THEN <<>>
      ELSE forEachWord(seg, idx, words, 0, seg.start, <<>>)

\* forEachSegment with unshift in place of push: later segments come first
RECURSIVE forEachSegmentPrepend(_, _, _)
forEachSegmentPrepend(tr, index, allWords) ==
  IF index >= Len(tr) THEN allWords
  ELSE forEachSegmentPrepend(tr, index + 1,
                             estimateWordTimings(tr[index + 1], index) \o allWords)

\* forEachSegment numbering only the segments that have words
RECURSIVE forEachSegmentCompactIndex(_, _, _)
forEachSegmentCompactIndex(tr, index, allWords) ==
  IF index >= Len(tr) THEN allWords
  ELSE LET before == Cardinality({k \in 1..index : splitWords(tr[k].text) # <<>>})
       IN  forEachSegmentCompactIndex(tr, index + 1,
             allWords \o estimateWordTimings(tr[index + 1], before))

\* forEachSegment assigning the segment's records instead of pushing them
RECURSIVE forEachSegmentReplace(_, _, _)
forEachSegmentReplace(tr, index, allWords) ==
  IF index >= Len(tr) THEN allWords
  ELSE forEachSegmentReplace(tr, index + 1, estimateWordTimings(tr[index + 1], index))

\* lines 79-82: transcript.forEach from 0-based position index on;
\* allWords.push(...words) appends the segment's records
RECURSIVE forEachSegment(_, _, _)
forEachSegment(tr, index, allWords) ==
  IF index >= Len(tr) THEN allWords
  ELSE forEachSegment(tr, index + 1,
                      allWords \o estimateWordTimings(tr[index + 1], index))

generateWordTimestamps(tr) == forEachSegment(tr, 0, <<>>)

\* isActiveAt with a closed interval
isActiveAtClosed(word, t) == RLe(word.start, t) /\ RLe(t, word.end)

\* line 98: the predicate handed to findIndex
isActiveAt(word, t) == RLe(word.start, t) /\ RLt(t, word.end)

\* findLastIndex in place of findIndex
RECURSIVE findLastIndexDown(_, _, _)
findLastIndexDown(ws, t, j) ==
  IF j < 0 THEN -1
  ELSE IF isActiveAt(ws[j + 1], t) THEN j
  ELSE findLastIndexDown(ws, t, j - 1)

findLastIndexFrom(ws, t, i) == findLastIndexDown(ws, t, Len(ws) - 1)

\* Array.prototype.findIndex from 0-based position i on: the first position
\* whose element passes, -1 when none does
RECURSIVE findIndexFrom(_, _, _)
findIndexFrom(ws, t, i) ==
  IF i >= Len(ws) THEN -1
  ELSE IF isActiveAt(ws[i + 1], t) THEN i
  ELSE findIndexFrom(ws, t, i + 1)

findActiveWord(ws, t) == findIndexFrom(ws, t, 0)

\* the characters of line 109's class; "U+266A" stands for the one character
\* U+266A (the eighth note)
StripChars ==
  {"U+266A", "[", "]", "(", ")", ".", ",", "!", "?", ";", ":", "'", "\""}

\* line 109: .replace(/[...]/g, '')
removePunctuation(w) == SelectSeq(w, LAMBDA c : c \notin StripChars)

\* line 110: .replace(/\s+/g, ' ') from position i on, out being the result so far
RECURSIVE collapseFrom(_, _, _)
collapseFrom(w, i, out) ==
  IF i > Len(w) THEN out
  ELSE IF w[i] \in Whitespace
       THEN IF i > 1 /\ w[i - 1] \in Whitespace
            THEN collapseFrom(w, i + 1, out)
            ELSE collapseFrom(w, i + 1, Append(out, " "))
       ELSE collapseFrom(w, i + 1, Append(out, w[i]))

collapseWhitespace(w) == collapseFrom(w, 1, <<>>)

\* line 111: .trim()
RECURSIVE trim(_)
trim(w) ==
  IF Len(w) = 0 THEN w
  ELSE IF w[1] \in Whitespace THEN trim(Tail(w))
  ELSE IF w[Len(w)] \in Whitespace THEN trim(SubSeq(w, 1, Len(w) - 1))
  ELSE w

\* the letters of the enumerated words that have a lower-case form
Uppercase == {"B", "H", "M"}
LowerOf(c) ==
  CASE c = "B" -> "b"
    [] c = "H" -> "h"
    [] c = "M" -> "m"
    [] OTHER -> c

\* line 112: .toLowerCase()
toLowerCase(w) == [i \in 1..Len(w) |-> LowerOf(w[i])]

\* cleanWord with whitespace collapsed before the punctuation is removed
cleanWordCollapseFirst(w) ==
  toLowerCase(trim(removePunctuation(collapseWhitespace(w))))

\* lines 107-113
cleanWord(w) ==
  toLowerCase(trim(collapseWhitespace(removePunctuation(w))))

(***************************************************************************)
(* Inputs.                                                                 *)
(***************************************************************************)
RECURSIVE SeqsUpTo(_, _)
\* the sequences over S of length at most n
SeqsUpTo(S, n) ==
  IF n = 0 THEN {<<>>}
  ELSE LET shorter == SeqsUpTo(S, n - 1)
       IN  shorter \cup {Append(s, x) : s \in {q \in shorter : Len(q) = n - 1}, x \in S}

Starts == {FromInt(k) : k \in 0..MaxStart}
Durations == {FromInt(k) : k \in -1..MaxDuration}

\* the caption of the documentation's example (3.24 s)
ExampleText ==
  <<"W", "e", "'", "r", "e", " ", "n", "o", " ", "s", "t", "r", "a", "n", "g",
    "e", "r", "s", " ", "t", "o", " ", "l", "o", "v", "e">>
ExampleSegment == [text |-> ExampleText, start |-> Zero, duration |-> Rat(324, 100)]

\* segments handed to the estimator alone
EstSegments ==
  {[text |-> x, start |-> s, duration |-> d] :
     x \in SeqsUpTo(Chars, MaxTextLen), s \in Starts, d \in Durations}
  \cup {ExampleSegment}

\* caption lines of the transcripts given to the display: one without a
\* token and one with two tokens of different lengths
LineTexts == {<<" ">>, <<"a", " ", "B", "B">>}
\* their durations: a negative, a zero and a positive one
LineDurations == {FromInt(-1), Zero, FromInt(1)}
LineSegments ==
  {[text |-> x, start |-> s, duration |-> d] :
     x \in LineTexts, s \in Starts, d \in LineDurations}
\* setTranscript is only called with a non-empty array
Transcripts == SeqsUpTo(LineSegments, MaxSegments) \ {<<>>}

\* caption lines of the transcripts handed to generateWordTimestamps alone:
\* empty, whitespace only, one token, two tokens
GenTexts == LineTexts \cup {<<>>, <<"a">>}
GenSegments ==
  {[text |-> x, start |-> s, duration |-> d] :
     x \in GenTexts, s \in Starts, d \in LineDurations}
GenTranscripts == SeqsUpTo(GenSegments, MaxSegments)

\* the characters of the words handed to cleanWord alone
CleanChars == {"a", "B", " ", "\t", ",", "U+266A"}
\* the specification's examples: "Hello,", U+266A mmm U+266A, "  Multi   space  "
HelloExample == <<"H", "e", "l", "l", "o", ",">>
NoteExample == <<"U+266A", "m", "m", "m", "U+266A">>
SpacesExample ==
  <<" ", " ", "M", "u", "l", "t", "i", " ", " ", " ", "s", "p", "a", "c", "e", " ", " ">>
CleanInputs ==
  SeqsUpTo(CleanChars, MaxWordLen) \cup {HelloExample, NoteExample, SpacesExample}

\* JavaScript's null; the selected word is only ever tested for truthiness, so
\* its null is the empty string
Null == [null |-> TRUE]
NoWord == <<>>

\* caption lines of the transcripts shown while words are clicked: each has a
\* word worth looking up and a token that is not; they are a second apart
FirstLine ==
  [text |-> <<"a", "B", " ", "a">>, start |-> Zero, duration |-> FromInt(1),
   translation |-> <<"x">>]
SecondLine ==
  [text |-> <<"B", "a", " ", ",">>, start |-> FromInt(2), duration |-> FromInt(1),
   translation |-> <<"y">>]
ClickSegments == {FirstLine, SecondLine}
\* one line alone, both in time order, both out of order
ClickTranscripts == {<<SecondLine>>, <<FirstLine, SecondLine>>, <<SecondLine, FirstLine>>}
\* mouse events of a click: pointer and window size
ClickEvents ==
  {[clientX |-> 0, clientY |-> 0, innerWidth |-> 1000, innerHeight |-> 800],
   [clientX |-> 900, clientY |-> 700, innerWidth |-> 1000, innerHeight |-> 800]}

\* the period of the poll, setInterval(..., 50), in the player's seconds
PollPeriod == Rat(50, 1000)
\* caption lines played through: their words last from a quarter of a poll
\* period to several periods
PlayTexts ==
  {<<"a", " ", "B", "B">>,
   <<"B", "B", " ", "a", " ", "B", "B", "B", "B", "B", "B", "B">>}
PlayDurations == {Rat(1, 4), Rat(1, 2), FromInt(1)}
PlaySegments ==
  {[text |-> x, start |-> s, duration |-> d] :
     x \in PlayTexts, s \in Starts, d \in PlayDurations}
\* transcripts in time order without overlap, as the caption source gives them
PlayTranscripts ==
  {<<a>> : a \in PlaySegments}
  \cup {p \in PlaySegments \X PlaySegments :
          RLe(RAdd(p[1].start, p[1].duration), p[2].start)}
\* player time at the first poll after playback starts
PlayPhases == {Zero, Rat(1, 100), Rat(3, 100)}
\* playback is followed until every caption has ended
PlayEnd == FromInt(MaxStart + 2)

\* JavaScript values of the JSON bodies and of the strings handed around
Str(chars) == [type |-> "string", chars |-> chars]
Num(k) == [type |-> "number", value |-> k]
Undefined == [type |-> "undefined"]
Truthy(v) ==
  CASE v.type = "string" -> v.chars # <<>>
    [] v.type = "number" -> v.value # 0
    [] v.type = "array" -> TRUE
    [] OTHER -> FALSE

\* arguments of translateText
TranslateTexts ==
  {Str(<<>>), Str(<<"a">>), Str(<<" ", "a", " ">>), Str(<<"a", " ", "B">>)}
TargetLangs == {"zh-TW", "es", "xx"}
\* what the Gemini request can come to: fetch rejects, an error status, a
\* body that is not JSON, or a JSON body whose candidate text is absent, an
\* empty string, a string, or not a string
GeminiTexts == {Undefined, Str(<<>>), Str(<<" ", "t", " ">>), Str(<<"t">>), Num(0), Num(5)}
GeminiResponses ==
  {[kind |-> "rejects"]}
  \cup {[kind |-> "status", ok |-> FALSE, status |-> k] : k \in {429, 500, 503}}
  \cup {[kind |-> "status", ok |-> TRUE, status |-> 200, json |-> FALSE]}
  \cup {[kind |-> "status", ok |-> TRUE, status |-> 200, json |-> TRUE, text |-> v] :
          v \in GeminiTexts}
\* data[0] of the free endpoint's body: absent, not an array, or an array of
\* items that are null or arrays starting with a string or null
Arr(items) == [type |-> "array", items |-> items]
FallbackItems == {Undefined, Arr(<<Str(<<"t">>)>>), Arr(<<Str(<<"u">>)>>), Arr(<<Undefined>>)}
FallbackData ==
  {Undefined, Str(<<"t">>)} \cup {Arr(i) : i \in SeqsUpTo(FallbackItems, MaxItems)}
FallbackResponses ==
  {[kind |-> "rejects"]}
  \cup {[kind |-> "status", ok |-> FALSE, status |-> 500]}
  \cup {[kind |-> "status", ok |-> TRUE, status |-> 200, json |-> FALSE]}
  \cup {[kind |-> "status", ok |-> TRUE, status |-> 200, json |-> TRUE, data0 |-> d] :
          d \in FallbackData}

\* the videos opened in the workspace and the captions the API has for them
VideoIds == {"A", "B"}
VideoTranscript(v) ==
  IF v = "A"
  THEN <<[text |-> <<"a", " ", "B", "B">>, start |-> Zero, duration |-> FromInt(1)]>>
  ELSE <<[text |-> <<"a">>, start |-> Zero, duration |-> FromInt(1)],
         [text |-> <<"B", "B">>, start |-> FromInt(1), duration |-> FromInt(1)]>>
\* a record of the store; its timestamp (Date.now()) is never read
CacheEntry(v, data) == [id |-> v, data |-> data]
\* what the store can hold for a video when the page opens: nothing, an
\* entry without segments, or the video's captions
StoredFor(v) == {Null, CacheEntry(v, <<>>), CacheEntry(v, VideoTranscript(v))}
\* outcomes of an IndexedDB operation: it succeeds, openDB rejects, or the
\* request on the store reports an error
DbOutcomes == {"ok", "openFails", "requestFails"}
\* outcomes of the POST to /api/transcript for video v
ApiOutcomes(v) ==
  {[kind |-> "rejects", message |-> Str(<<"Failed to fetch">>)],
   [kind |-> "status", ok |-> FALSE, error |-> Undefined],
   [kind |-> "status", ok |-> FALSE, error |-> Str(<<"Video unavailable">>)],
   [kind |-> "status", ok |-> TRUE, transcript |-> <<>>],
   [kind |-> "status", ok |-> TRUE, transcript |-> VideoTranscript(v)]}

\* the arrays handed to translateBatch: captions of up to MaxTexts segments
CaptionTexts == {Str(<<"a">>), Str(<<"B">>)}
BatchTexts == SeqsUpTo(CaptionTexts, MaxTexts)
\* what a translateText call can resolve to: a translation or, after a failed
\* fallback, its text
Translations(text) == {text, Str(<<"t">> \o text.chars)}

\* segments as a transcript source delivers them: text, offset and duration
\* in milliseconds (0 is the falsy value of the two numbers)
YtTexts == {<<>>, <<" ">>, <<"a">>, <<" ", "a">>}
YtOffsets == {0, 1500}
YtDurations == {0, 1000}
YtSegments == [text : YtTexts, offset : YtOffsets, duration : YtDurations]
YtTranscripts == SeqsUpTo(YtSegments, MaxSegments)

\* what the Python service can answer: the request fails, a status that is
\* not ok with or without an error text, or a body with or without a transcript
PythonResponses ==
  {[kind |-> "rejects"]}
    \cup [kind : {"notOk"}, error : {Undefined, Str(<<"Transcripts disabled">>)}]
    \cup [kind : {"ok"}, transcript : {Undefined} \cup {Arr(t) : t \in YtTranscripts}]

\* what the direct method can do: throw one of its errors, or return the
\* segments it parsed, whose text is trimmed and not empty
RawErrors ==
  {"Failed to fetch video page: 429", "Could not find player data in video page",
   "Failed to parse video data", "No captions available for this video",
   "Failed to fetch captions: 404"}
RawSegments == {g \in YtSegments : g.text = <<"a">>}
RawOutcomes ==
  [do : {"throw"}, message : RawErrors]
    \cup [do : {"return"}, value : SeqsUpTo(RawSegments, MaxSegments)]

\* the words saved to the vocabulary, and who can be signed in
VocWords == {"a", "b"}
Sessions == {"anon", "user"}
\* no id: the id field of a call that has not created a word
NoId == [src |-> "none", n |-> 0]

\* the saved words a vocabulary panel is given: word and translation
CardWords ==
  {[id |-> 1, word |-> <<"a">>, translation |-> <<"B">>],
   [id |-> 2, word |-> <<"B", "a">>, translation |-> <<"H">>],
   [id |-> 3, word |-> <<"H">>, translation |-> <<"a", "M">>]}
\* the lists of saved words: no word twice
WordLists ==
  {l \in SeqsUpTo(CardWords, Cardinality(CardWords)) :
     \A i, j \in 1..Len(l) : i # j => l[i] # l[j]}
\* what is typed into the search box
SearchTerms == {<<>>, <<"a">>, <<"b">>, <<"H">>}

\* playback times sampled by the poll, on a half-second grid from before the
\* first possible start to after the last possible end
Times == {Rat(k, 2) : k \in -1..(2 * MaxStart + 3)}

(***************************************************************************)
(* State.                                                                  *)
(***************************************************************************)
VARIABLES
  transcript,       \* page.tsx useState: the loaded caption segments
  currentTime,      \* page.tsx useState: the polled playback time
  wordTimestamps,   \* WordByWordDisplay useMemo: generateWordTimestamps(transcript)
  activeWordIndex,  \* WordByWordDisplay useMemo: findActiveWord(wordTimestamps, currentTime)
  estSegment,       \* argument of a direct estimateWordTimings call
  estIndex,         \* its segmentIndex argument
  estResult,        \* the array it returned
  estPc,            \* "idle" | "call" | "done"
  genTranscript,    \* argument of a direct generateWordTimestamps call
  genResult,        \* the array it returned
  genPc,            \* "idle" | "call" | "done"
  cleanInput,       \* argument of a direct cleanWord call
  cleanResult,      \* the string it returned
  cleanPc,          \* "idle" | "call" | "done"
  selectedWord,     \* WordByWordDisplay useState: the cleaned word of the popover
  popoverPosition,  \* WordByWordDisplay useState: where the popover is drawn
  wordDefinition,   \* WordByWordDisplay useState: the looked-up definition
  loadingDefinition,\* WordByWordDisplay useState: a lookup is awaited
  autoScroll,       \* WordByWordDisplay useState: the reader control
  pendingLookups,   \* fetchWordDefinition calls that have not returned yet
  saveCalls,        \* the calls of the onSaveWord prop, in order
  clickedIndex,     \* history: index of the record whose click opened the popover
  lastEvent,        \* history: the last handler the display ran
  playStart,        \* player time at the first poll of a continuous playback
  USE_FALLBACK,     \* db.ts line 483: no usable Gemini API key is configured
  trText,           \* translateText: its text argument
  trTargetLang,     \* translateText: its targetLang argument
  trPc,             \* "idle" | "call" | "gemini" | "fallback" | "done"
  trRequests,       \* the fetch requests translateText has issued, in order
  trResponses,      \* the outcomes of those requests, in order
  trResult,         \* how the promise of translateText settled
  videoId,          \* page.tsx line 33: the route's videoId
  loading,          \* page.tsx useState(true)
  error,            \* page.tsx useState(null): the message shown instead of captions
  cache,            \* db.ts: the IndexedDB store 'transcripts', keyed by id
  loads,            \* the fetchTranscript calls started so far, in order
  batchTexts,       \* translateBatch: its texts argument
  batchPc,          \* "idle" | "loop" | "await" | "delay" | "done"
  batchI,           \* translateBatch: the loop variable i
  batchCalls,       \* the translateText calls started: Null in flight, else the result
  batchOrder,       \* indices of the current batch's calls in the order they resolved
  batchResults,     \* translateBatch: the results array
  batchDelays,      \* the setTimeout delays awaited so far, in milliseconds
  ytPc,             \* getYoutubeTranscript: "idle" | "python" | "raw" | "done"
  ytCalls,          \* the transcript sources called, in order
  ytResponses,      \* what each source called did: a throw or a return
  ytResult,         \* how getYoutubeTranscript settled, Null before
  session,          \* what getCurrentUser resolves to in this browser: "anon" | "user"
  savedWords,       \* page.tsx useState([]): the vocabulary shown, newest first
  stored,           \* localStorage entry vocabulary_<videoId>: present or not, and its list
  remote,           \* the user's rows of the vocabulary table for this video, newest first
  vocOps,           \* the handleSaveWord / handleDeleteWord calls of this page load
  now,              \* Date.now() when it was last read
  nextRemoteId,     \* the number of rows the vocabulary table has created
  reloaded,         \* the page has been loaded a second time
  authWrote,        \* a handler of an authenticated user has written the entry
  panelWords,       \* VocabularyPanel: its words prop
  searchTerm,       \* VocabularyPanel useState('')
  showFlashcards,   \* VocabularyPanel useState(false)
  currentCardIndex, \* VocabularyPanel useState(0)
  showAnswer,       \* VocabularyPanel useState(false)
  recentVideos,     \* useRecentVideos useState([]), newest first
  recentStored,     \* localStorage entry language_learn_recent_videos
  added             \* the videoIds given to addVideo so far, in order

displayVars == <<transcript, currentTime, wordTimestamps, activeWordIndex>>
estVars == <<estSegment, estIndex, estResult, estPc>>
genVars == <<genTranscript, genResult, genPc>>
cleanVars == <<cleanInput, cleanResult, cleanPc>>
uiVars ==
  <<selectedWord, popoverPosition, wordDefinition, loadingDefinition, autoScroll,
    pendingLookups, saveCalls, clickedIndex, lastEvent>>
playVars == <<playStart>>
pageVars == <<videoId, loading, error, cache, loads>>
batchVars ==
  <<batchTexts, batchPc, batchI, batchCalls, batchOrder, batchResults, batchDelays>>
trVars == <<USE_FALLBACK, trText, trTargetLang, trPc, trRequests, trResponses, trResult>>
ytVars == <<ytPc, ytCalls, ytResponses, ytResult>>

vocVars ==
  <<session, savedWords, stored, remote, vocOps, now, nextRemoteId, reloaded, authWrote>>

cardVars == <<panelWords, searchTerm, showFlashcards, currentCardIndex, showAnswer>>

recentVars == <<recentVideos, recentStored, added>>

vars == <<displayVars, estVars, genVars, cleanVars, uiVars, playVars, trVars, pageVars, batchVars, ytVars, vocVars, cardVars, recentVars>>

\* the workspace page after construction: useState([]) and useState(0), and
\* the display's memoised values for them
InitDisplay ==
  /\ transcript = <<>>
  /\ currentTime = Zero
  /\ wordTimestamps = generateWordTimestamps(<<>>)
  /\ activeWordIndex = findActiveWord(generateWordTimestamps(<<>>), Zero)

EstIdle ==
  /\ estSegment = [text |-> <<>>, start |-> Zero, duration |-> Zero]
  /\ estIndex = 0
  /\ estResult = <<>>
  /\ estPc = "idle"

GenIdle ==
  /\ genTranscript = <<>>
  /\ genResult = <<>>
  /\ genPc = "idle"

CleanIdle ==
  /\ cleanInput = <<>>
  /\ cleanResult = <<>>
  /\ cleanPc = "idle"

PlayIdle == playStart = Zero

PageIdle ==
  /\ videoId = "A"
  /\ loading = TRUE
  /\ error = Null
  /\ cache = [v \in VideoIds |-> Null]
  /\ loads = <<>>

BatchIdle ==
  /\ batchTexts = <<>>
  /\ batchPc = "idle"
  /\ batchI = 0
  /\ batchCalls = <<>>
  /\ batchOrder = <<>>
  /\ batchResults = <<>>
  /\ batchDelays = <<>>

YtIdle ==
  /\ ytPc = "idle"
  /\ ytCalls = <<>>
  /\ ytResponses = <<>>
  /\ ytResult = Null

VocIdle ==
  /\ session = "anon"
  /\ savedWords = <<>>
  /\ stored = [present |-> FALSE, value |-> <<>>]
  /\ remote = <<>>
  /\ vocOps = <<>>
  /\ now = 0
  /\ nextRemoteId = 0
  /\ reloaded = FALSE
  /\ authWrote = FALSE

CardIdle ==
  /\ panelWords = <<>>
  /\ searchTerm = <<>>
  /\ showFlashcards = FALSE
  /\ currentCardIndex = 0
  /\ showAnswer = FALSE

RecentIdle ==
  /\ recentVideos = <<>>
  /\ recentStored = [present |-> FALSE, value |-> <<>>]
  /\ added = <<>>

TrIdle ==
  /\ USE_FALLBACK = TRUE
  /\ trText = Str(<<>>)
  /\ trTargetLang = "zh-TW"
  /\ trPc = "idle"
  /\ trRequests = <<>>
  /\ trResponses = <<>>
  /\ trResult = Null

\* the word-by-word display after construction: useState(null), useState(null),
\* useState(false), useState(null), useState(true); nothing awaited or saved
UiIdle ==
  /\ selectedWord = NoWord
  /\ popoverPosition = Null
  /\ wordDefinition = Null
  /\ loadingDefinition = FALSE
  /\ autoScroll = TRUE
  /\ pendingLookups = <<>>
  /\ saveCalls = <<>>
  /\ clickedIndex = -1
  /\ lastEvent = [kind |-> "none"]

\* fetchTranscript's setTranscript(data) for the opened video (one load per
\* videoId); the display re-renders and recomputes both memoised values
SetTranscript(tr) ==
  /\ transcript = <<>>
  /\ transcript' = tr
  /\ wordTimestamps' = generateWordTimestamps(tr)
  /\ activeWordIndex' = findActiveWord(generateWordTimestamps(tr), currentTime)
  /\ UNCHANGED <<currentTime, estVars, genVars, cleanVars, uiVars, playVars, trVars, pageVars, batchVars, ytVars, vocVars, cardVars, recentVars>>

\* the 50 ms interval's setCurrentTime(time); activeWordIndex is recomputed
SetCurrentTime(t) ==
  /\ currentTime' = t
  /\ activeWordIndex' = findActiveWord(wordTimestamps, t)
  /\ UNCHANGED <<transcript, wordTimestamps, estVars, genVars, cleanVars, uiVars, playVars, trVars, pageVars, batchVars, ytVars, vocVars, cardVars, recentVars>>

Init == InitDisplay /\ EstIdle /\ GenIdle /\ CleanIdle /\ UiIdle /\ PlayIdle /\ TrIdle /\ PageIdle /\ BatchIdle /\ YtIdle /\ VocIdle /\ CardIdle /\ RecentIdle

Next ==
  \/ \E tr \in Transcripts : SetTranscript(tr)
  \/ \E t \in Times : SetCurrentTime(t)

Spec == Init /\ [][Next]_vars

\* a direct call estimateWordTimings(estSegment, estIndex)
InitEstimate ==
  /\ InitDisplay
  /\ PageIdle
  /\ TrIdle
  /\ PlayIdle
  /\ UiIdle
  /\ GenIdle
  /\ CleanIdle
  /\ estSegment \in EstSegments
  /\ estIndex \in 0..MaxIndex
  /\ estResult = <<>>
  /\ estPc = "call"
  /\ BatchIdle
  /\ YtIdle
  /\ VocIdle
  /\ CardIdle
  /\ RecentIdle

Estimate ==
  /\ estPc = "call"
  /\ estResult' = estimateWordTimings(estSegment, estIndex)
  /\ estPc' = "done"
  /\ UNCHANGED <<estSegment, estIndex, displayVars, genVars, cleanVars, uiVars, playVars, trVars, pageVars, batchVars, ytVars, vocVars, cardVars, recentVars>>

NextEstimate == Estimate

SpecEstimate == InitEstimate /\ [][NextEstimate]_vars

\* a direct call generateWordTimestamps(genTranscript)
InitGenerate ==
  /\ InitDisplay
  /\ PageIdle
  /\ TrIdle
  /\ PlayIdle
  /\ UiIdle
  /\ EstIdle
  /\ CleanIdle
  /\ genTranscript \in GenTranscripts
  /\ genResult = <<>>
  /\ genPc = "call"
  /\ BatchIdle
  /\ YtIdle
  /\ VocIdle
  /\ CardIdle
  /\ RecentIdle

Generate ==
  /\ genPc = "call"
  /\ genResult' = generateWordTimestamps(genTranscript)
  /\ genPc' = "done"
  /\ UNCHANGED <<genTranscript, displayVars, estVars, cleanVars, uiVars, playVars, trVars, pageVars, batchVars, ytVars, vocVars, cardVars, recentVars>>

NextGenerate == Generate

SpecGenerate == InitGenerate /\ [][NextGenerate]_vars

\* a direct call cleanWord(cleanInput)
InitClean ==
  /\ InitDisplay
  /\ PageIdle
  /\ TrIdle
  /\ PlayIdle
  /\ UiIdle
  /\ EstIdle
  /\ GenIdle
  /\ cleanInput \in CleanInputs
  /\ cleanResult = <<>>
  /\ cleanPc = "call"
  /\ BatchIdle
  /\ YtIdle
  /\ VocIdle
  /\ CardIdle
  /\ RecentIdle

Clean ==
  /\ cleanPc = "call"
  /\ cleanResult' = cleanWord(cleanInput)
  /\ cleanPc' = "done"
  /\ UNCHANGED <<cleanInput, displayVars, estVars, genVars, uiVars, playVars, trVars, pageVars, batchVars, ytVars, vocVars, cardVars, recentVars>>

NextClean == Clean

SpecClean == InitClean /\ [][NextClean]_vars

(***************************************************************************)
(* src/unnamed/part_003: the word-by-word display's popover.               *)
(***************************************************************************)
Min(a, b) == IF a <= b THEN a ELSE b
Max(a, b) == IF a >= b THEN a ELSE b

\* lines 97-98: the popover is kept inside the window
smartPosition(e) ==
  [x |-> Min(Max(20, e.clientX), e.innerWidth - 320),
   y |-> Min(Max(20, e.clientY + 20), e.innerHeight - 300)]

\* line 94 with every cleaned word accepted but the empty one
isLookupWorthyNonEmpty(cleaned) == Len(cleaned) >= 1

\* line 94: if (!cleaned || cleaned.length < 2) return
isLookupWorthy(cleaned) == cleaned # <<>> /\ Len(cleaned) >= 2

\* lines 53-55
activeSegmentIndex ==
  IF activeWordIndex >= 0 THEN wordTimestamps[activeWordIndex + 1].segmentIndex
  ELSE -1

\* value || fallback, for a value that is falsy exactly when it is empty
OrElse(value, empty, fallback) == IF value = empty THEN fallback ELSE value
TranslationNotAvailable == <<"Translation not available">>
ContextNotAvailable == <<"Context not available">>

\* lines 120-125: the arguments handed to onSaveWord
onSaveWordCall(word, segment) ==
  [word |-> word,
   translation |-> OrElse(segment.translation, <<>>, TranslationNotAvailable),
   context |-> OrElse(segment.text, <<>>, ContextNotAvailable),
   timestamp |-> OrElse(segment.start, Zero, Zero)]

\* lines 90-105: a click on the span of record number i (0-based), up to the
\* await; stopPropagation keeps the click from the segment and the window
handleWordClick(i, e) ==
  /\ i \in 0..(Len(wordTimestamps) - 1)
  /\ lastEvent' = [kind |-> "click", index |-> i]
  /\ LET cleaned == cleanWord(wordTimestamps[i + 1].word)
     IN  IF ~isLookupWorthy(cleaned)
         THEN UNCHANGED <<selectedWord, popoverPosition, wordDefinition,
                          loadingDefinition, autoScroll, pendingLookups,
                          clickedIndex>>
         ELSE /\ Len(pendingLookups) < MaxPending
              /\ popoverPosition' = smartPosition(e)
              /\ selectedWord' = cleaned
              /\ loadingDefinition' = TRUE
              /\ wordDefinition' = Null
              /\ autoScroll' = FALSE
              /\ pendingLookups' = Append(pendingLookups, cleaned)
              /\ clickedIndex' = i
  /\ UNCHANGED <<saveCalls, displayVars, estVars, genVars, cleanVars, playVars, trVars, pageVars, batchVars, ytVars, vocVars, cardVars, recentVars>>

\* lines 106-112: an awaited fetchWordDefinition returns the entry or null (it
\* catches its own errors); the handler stores it and ends the loading state
LookupReturns(k, found) ==
  /\ k \in 1..Len(pendingLookups)
  /\ wordDefinition' = IF found THEN [word |-> pendingLookups[k]] ELSE Null
  /\ loadingDefinition' = FALSE
  /\ pendingLookups' =
       SubSeq(pendingLookups, 1, k - 1) \o SubSeq(pendingLookups, k + 1, Len(pendingLookups))
  /\ lastEvent' = [kind |-> "other"]
  /\ UNCHANGED <<selectedWord, popoverPosition, autoScroll, saveCalls, clickedIndex,
                 displayVars, estVars, genVars, cleanVars, playVars, trVars, pageVars, batchVars, ytVars, vocVars, cardVars, recentVars>>

\* lines 116-127: the popover's save button, which is drawn while the popover
\* is open and no lookup is loading
handleSaveWord ==
  /\ selectedWord # NoWord /\ popoverPosition # Null /\ ~loadingDefinition
  /\ Len(saveCalls) < MaxSaves
  /\ lastEvent' = [kind |-> "save", word |-> selectedWord, clicked |-> clickedIndex,
                   calls |-> Len(saveCalls)]
  /\ IF selectedWord = NoWord \/ activeWordIndex = -1
     THEN UNCHANGED <<selectedWord, saveCalls>>
     ELSE LET segment == IF activeSegmentIndex >= 0
                         THEN transcript[activeSegmentIndex + 1]
                         ELSE transcript[1]
          IN  /\ saveCalls' = Append(saveCalls, onSaveWordCall(selectedWord, segment))
              /\ selectedWord' = NoWord
  /\ UNCHANGED <<popoverPosition, wordDefinition, loadingDefinition, autoScroll,
                 pendingLookups, clickedIndex, displayVars, estVars, genVars, cleanVars, playVars, trVars, pageVars, batchVars, ytVars, vocVars, cardVars, recentVars>>

\* lines 138-143 and 334: the popover's X button, or a click outside the
\* popover that reaches the window's listener
ClosePopover ==
  /\ selectedWord # NoWord
  /\ selectedWord' = NoWord
  /\ lastEvent' = [kind |-> "other"]
  /\ UNCHANGED <<popoverPosition, wordDefinition, loadingDefinition, autoScroll,
                 pendingLookups, saveCalls, clickedIndex,
                 displayVars, estVars, genVars, cleanVars, playVars, trVars, pageVars, batchVars, ytVars, vocVars, cardVars, recentVars>>

\* lines 163 and 202: the auto-scroll control; the click also reaches the
\* window's listener, which closes an open popover
ToggleAutoScroll ==
  /\ autoScroll' = ~autoScroll
  /\ selectedWord' = NoWord
  /\ lastEvent' = [kind |-> "other"]
  /\ UNCHANGED <<popoverPosition, wordDefinition, loadingDefinition,
                 pendingLookups, saveCalls, clickedIndex,
                 displayVars, estVars, genVars, cleanVars, playVars, trVars, pageVars, batchVars, ytVars, vocVars, cardVars, recentVars>>

\* the display mounted with a loaded transcript, playback at 0
InitWordClick ==
  /\ transcript \in ClickTranscripts
  /\ currentTime = Zero
  /\ wordTimestamps = generateWordTimestamps(transcript)
  /\ activeWordIndex = findActiveWord(generateWordTimestamps(transcript), Zero)
  /\ EstIdle
  /\ GenIdle
  /\ CleanIdle
  /\ UiIdle
  /\ PlayIdle
  /\ TrIdle
  /\ PageIdle
  /\ BatchIdle
  /\ YtIdle
  /\ VocIdle
  /\ CardIdle
  /\ RecentIdle

NextWordClick ==
  \/ \E t \in Times : SetCurrentTime(t)
  \/ \E i \in 0..(Len(wordTimestamps) - 1), e \in ClickEvents : handleWordClick(i, e)
  \/ \E k \in 1..MaxPending, found \in BOOLEAN : LookupReturns(k, found)
  \/ handleSaveWord
  \/ ClosePopover
  \/ ToggleAutoScroll

SpecWordClick == InitWordClick /\ [][NextWordClick]_vars

(***************************************************************************)
(* src/app/workspace/[videoId]/page.tsx, lines 62-71: the poll during a    *)
(* continuous forward playback at normal speed.                            *)
(***************************************************************************)
\* the interval fires one period after its last run and the player has
\* advanced by as much
PollTick ==
  /\ RLt(currentTime, PlayEnd)
  /\ SetCurrentTime(RAdd(currentTime, PollPeriod))

\* the display mounted with a transcript, the first poll of the playback done
InitPlayback ==
  /\ transcript \in PlayTranscripts
  /\ playStart \in PlayPhases
  /\ currentTime = playStart
  /\ wordTimestamps = generateWordTimestamps(transcript)
  /\ activeWordIndex = findActiveWord(generateWordTimestamps(transcript), playStart)
  /\ EstIdle
  /\ GenIdle
  /\ CleanIdle
  /\ UiIdle
  /\ TrIdle
  /\ PageIdle
  /\ BatchIdle
  /\ YtIdle
  /\ VocIdle
  /\ CardIdle
  /\ RecentIdle

NextPlayback == PollTick

SpecPlayback == InitPlayback /\ [][NextPlayback]_vars

(***************************************************************************)
(* src/lib/db.ts, lines 479-602: translateText and its fallback.           *)
(***************************************************************************)
\* lines 562-574
getLanguageName(code) ==
  CASE code = "zh-TW" -> "Traditional Chinese"
    [] code = "en" -> "English"
    [] code = "es" -> "Spanish"
    [] OTHER -> code

RECURSIVE joinFirsts(_)
\* line 592: data[0].map(item => item[0]).join(''); null and undefined join
\* as the empty string
joinFirsts(items) ==
  IF items = <<>> THEN <<>>
  ELSE (IF items[1].items[1].type = "string" THEN items[1].items[1].chars ELSE <<>>)
       \o joinFirsts(Tail(items))

\* lines 580-597: the body of translateTextFallback's try block, given the
\* outcome of its fetch
fallbackTry(resp, text) ==
  IF resp.kind = "rejects" THEN [do |-> "throw"]
  ELSE IF ~resp.ok THEN [do |-> "return", value |-> text]
  ELSE IF ~resp.json THEN [do |-> "throw"]
  ELSE IF resp.data0 = Undefined THEN [do |-> "return", value |-> text]
  ELSE IF resp.data0.type # "array" THEN [do |-> "throw"]
  ELSE IF \E k \in 1..Len(resp.data0.items) : resp.data0.items[k] = Undefined
       THEN [do |-> "throw"]
  ELSE [do |-> "return", value |-> Str(joinFirsts(resp.data0.items))]

\* translateTextFallback without its catch block
translateTextFallbackNoCatch(resp, text) ==
  LET r == fallbackTry(resp, text)
  IN  IF r.do = "throw" THEN [state |-> "rejected"]
      ELSE [state |-> "resolved", value |-> r.value]

\* lines 578-602: translateTextFallback; its catch returns the text
translateTextFallback(resp, text) ==
  LET r == fallbackTry(resp, text)
  IN  IF r.do = "throw" THEN [state |-> "resolved", value |-> text]
      ELSE [state |-> "resolved", value |-> r.value]

\* lines 534-552: translateText after its fetch, inside the try block
geminiTry(resp, text) ==
  IF resp.kind = "rejects" THEN [do |-> "throw"]
  ELSE IF ~resp.ok
       THEN IF resp.status = 429 \/ resp.status = 503 THEN [do |-> "fallback"]
            ELSE [do |-> "throw"]
  ELSE IF ~resp.json THEN [do |-> "throw"]
  ELSE IF Truthy(resp.text)
       THEN IF resp.text.type = "string"
            THEN [do |-> "return", value |-> Str(trim(resp.text.chars))]
            ELSE [do |-> "throw"]
  ELSE [do |-> "return", value |-> text]

\* translateText without its catch block
afterGeminiNoCatch(resp, text) == geminiTry(resp, text)

\* lines 553-557: the catch block turns every exception into the fallback
afterGemini(resp, text) ==
  LET r == geminiTry(resp, text)
  IN  IF r.do = "throw" THEN [do |-> "fallback"] ELSE r

geminiRequest(text, targetLang) ==
  [endpoint |-> "generativelanguage.googleapis.com",
   prompt |-> <<getLanguageName("en"), getLanguageName(targetLang), text>>]
fallbackRequest(text, targetLang) ==
  [endpoint |-> "translate.googleapis.com", tl |-> targetLang, q |-> text]

\* lines 493-516: the call up to its first await
translateTextCall ==
  /\ trPc = "call"
  /\ IF USE_FALLBACK
     THEN /\ trRequests' = Append(trRequests, fallbackRequest(trText, trTargetLang))
          /\ trPc' = "fallback"
     ELSE /\ trRequests' = Append(trRequests, geminiRequest(trText, trTargetLang))
          /\ trPc' = "gemini"
  /\ UNCHANGED <<USE_FALLBACK, trText, trTargetLang, trResponses, trResult,
                 displayVars, estVars, genVars, cleanVars, uiVars, playVars, pageVars, batchVars, ytVars, vocVars, cardVars, recentVars>>

\* lines 534-557: the Gemini fetch settles
GeminiSettles(resp) ==
  /\ trPc = "gemini"
  /\ trResponses' = Append(trResponses, resp)
  /\ LET r == afterGemini(resp, trText)
     IN  CASE r.do = "return" ->
                /\ trResult' = [state |-> "resolved", value |-> r.value]
                /\ trPc' = "done"
                /\ UNCHANGED trRequests
           [] r.do = "fallback" ->
                /\ trRequests' = Append(trRequests, fallbackRequest(trText, trTargetLang))
                /\ trPc' = "fallback"
                /\ UNCHANGED trResult
           [] OTHER ->
                /\ trResult' = [state |-> "rejected"]
                /\ trPc' = "done"
                /\ UNCHANGED trRequests
  /\ UNCHANGED <<USE_FALLBACK, trText, trTargetLang,
                 displayVars, estVars, genVars, cleanVars, uiVars, playVars, pageVars, batchVars, ytVars, vocVars, cardVars, recentVars>>

\* lines 578-602: the fallback's fetch settles; translateText returns the
\* fallback's promise, so it settles as the fallback does
FallbackSettles(resp) ==
  /\ trPc = "fallback"
  /\ trResponses' = Append(trResponses, resp)
  /\ trResult' = translateTextFallback(resp, trText)
  /\ trPc' = "done"
  /\ UNCHANGED <<USE_FALLBACK, trText, trTargetLang, trRequests,
                 displayVars, estVars, genVars, cleanVars, uiVars, playVars, pageVars, batchVars, ytVars, vocVars, cardVars, recentVars>>

\* a call translateText(trText, trTargetLang) with or without an API key
InitTranslate ==
  /\ InitDisplay
  /\ PageIdle
  /\ EstIdle
  /\ GenIdle
  /\ CleanIdle
  /\ UiIdle
  /\ PlayIdle
  /\ PageIdle
  /\ USE_FALLBACK \in BOOLEAN
  /\ trText \in TranslateTexts
  /\ trTargetLang \in TargetLangs
  /\ trPc = "call"
  /\ trRequests = <<>>
  /\ trResponses = <<>>
  /\ trResult = Null
  /\ BatchIdle
  /\ YtIdle
  /\ VocIdle
  /\ CardIdle
  /\ RecentIdle

NextTranslate ==
  \/ translateTextCall
  \/ \E resp \in GeminiResponses : GeminiSettles(resp)
  \/ \E resp \in FallbackResponses : FallbackSettles(resp)

SpecTranslate == InitTranslate /\ [][NextTranslate]_vars

(***************************************************************************)
(* src/app/workspace/[videoId]/page.tsx, lines 50-120, and src/lib/db.ts,  *)
(* lines 28-64: loading the transcript through the cache.                  *)
(***************************************************************************)
\* setTranscript(data): the display re-renders and recomputes its memos
ShowTranscript(tr) ==
  /\ transcript' = tr
  /\ wordTimestamps' = generateWordTimestamps(tr)
  /\ activeWordIndex' = findActiveWord(generateWordTimestamps(tr), currentTime)
  /\ UNCHANGED currentTime

\* the cache test with the emptiness test left out
cacheHitAnyEntry(cached) == cached # Null

\* page.tsx line 82: cached && cached.data && cached.data.length > 0
cacheHit(cached) == cached # Null /\ cached.data # <<>>

\* db.ts lines 28-43: what getTranscript hands back: the record or null, null
\* when openDB rejects (caught), a rejection when the store request fails
getTranscript(v, outcome) ==
  CASE outcome = "ok" -> [state |-> "resolved", value |-> cache[v]]
    [] outcome = "openFails" -> [state |-> "resolved", value |-> Null]
    [] OTHER -> [state |-> "rejected"]

\* db.ts lines 45-64: how saveTranscript settles: a rejection of openDB is
\* caught, a failing put rejects the returned promise
saveTranscript(outcome) ==
  CASE outcome = "requestFails" -> [state |-> "rejected", message |-> Str(<<"QuotaExceededError">>)]
    [] OTHER -> [state |-> "resolved"]

\* page.tsx lines 98-108: the message thrown for a response of the API, or
\* none
apiError(resp) ==
  IF resp.kind = "rejects" THEN resp.message
  ELSE IF ~resp.ok
       THEN IF Truthy(resp.error) THEN resp.error ELSE Str(<<"Failed to fetch transcript">>)
  ELSE IF resp.transcript = <<>> THEN Str(<<"No transcript data received from API">>)
  ELSE Null

\* page.tsx lines 73-80: fetchTranscript for video v up to its first await
NewLoad(v, how) ==
  [vid |-> v, start |-> how, pc |-> "cacheRead", read |-> "pending", cached |-> Null,
   requested |-> FALSE, data |-> <<>>, write |-> "none",
   during |-> \E k \in 1..Len(loads) : loads[k].pc # "done"]

\* the page is opened on video v (every earlier load has ended): its state is
\* constructed anew and the effect of lines 50-55 starts fetchTranscript
Mount(v) ==
  /\ Len(loads) < MaxLoads
  /\ \A k \in 1..Len(loads) : loads[k].pc = "done"
  /\ videoId' = v
  /\ ShowTranscript(<<>>)
  /\ loading' = TRUE
  /\ error' = Null
  /\ loads' = Append(loads, NewLoad(v, "mount"))
  /\ UNCHANGED <<cache, estVars, genVars, cleanVars, uiVars, playVars, trVars, batchVars, ytVars, vocVars, cardVars, recentVars>>

\* the route changes to another video while the page stays mounted: the
\* effect of lines 50-55 runs again; setLoading(true), setError(null)
Navigate(v) ==
  /\ Len(loads) < MaxLoads
  /\ loads # <<>>
  /\ v # videoId
  /\ videoId' = v
  /\ loading' = TRUE
  /\ error' = Null
  /\ loads' = Append(loads, NewLoad(v, "navigate"))
  /\ UNCHANGED <<cache, displayVars, estVars, genVars, cleanVars, uiVars, playVars, trVars, batchVars, ytVars, vocVars, cardVars, recentVars>>

\* page.tsx lines 80-92: the awaited getTranscript of load k settles
getTranscriptSettles(k, outcome) ==
  /\ k \in 1..Len(loads)
  /\ loads[k].pc = "cacheRead"
  /\ LET got == getTranscript(loads[k].vid, outcome)
         cached == IF got.state = "resolved" THEN got.value ELSE Null
         read == IF outcome = "ok" THEN "ok" ELSE "failed"
     IN  IF got.state = "resolved" /\ cacheHit(cached)
         THEN /\ ShowTranscript(cached.data)
              /\ loading' = FALSE
              /\ loads' = [loads EXCEPT ![k].pc = "done", ![k].read = read,
                                        ![k].cached = cached]
         ELSE /\ loads' = [loads EXCEPT ![k].pc = "network", ![k].read = read,
                                        ![k].cached = cached, ![k].requested = TRUE]
              /\ UNCHANGED <<displayVars, loading>>
  /\ UNCHANGED <<videoId, error, cache, estVars, genVars, cleanVars, uiVars, playVars, trVars, batchVars, ytVars, vocVars, cardVars, recentVars>>

\* page.tsx lines 94-112 and 114-119: the POST of load k settles
apiSettles(k, resp) ==
  /\ k \in 1..Len(loads)
  /\ loads[k].pc = "network"
  /\ resp \in ApiOutcomes(loads[k].vid)
  /\ IF apiError(resp) # Null
     THEN /\ error' = OrElse(apiError(resp), Str(<<>>), Str(<<"Failed to load transcript">>))
          /\ loading' = FALSE
          /\ loads' = [loads EXCEPT ![k].pc = "done"]
          /\ UNCHANGED displayVars
     ELSE /\ ShowTranscript(resp.transcript)
          /\ loads' = [loads EXCEPT ![k].pc = "cacheWrite", ![k].data = resp.transcript]
          /\ UNCHANGED <<error, loading>>
  /\ UNCHANGED <<videoId, cache, estVars, genVars, cleanVars, uiVars, playVars, trVars, batchVars, ytVars, vocVars, cardVars, recentVars>>

\* page.tsx lines 112-119: the awaited saveTranscript of load k settles
saveTranscriptSettles(k, outcome) ==
  /\ k \in 1..Len(loads)
  /\ loads[k].pc = "cacheWrite"
  /\ cache' = IF outcome = "ok"
              THEN [cache EXCEPT ![loads[k].vid] = CacheEntry(loads[k].vid, loads[k].data)]
              ELSE cache
  /\ error' = IF saveTranscript(outcome).state = "rejected"
              THEN OrElse(saveTranscript(outcome).message, Str(<<>>),
                          Str(<<"Failed to load transcript">>))
              ELSE error
  /\ loading' = FALSE
  /\ loads' = [loads EXCEPT ![k].pc = "done",
                            ![k].write = IF outcome = "ok" THEN "ok" ELSE "failed"]
  /\ UNCHANGED <<videoId, displayVars, estVars, genVars, cleanVars, uiVars, playVars, trVars, batchVars, ytVars, vocVars, cardVars, recentVars>>

\* the page not opened yet, the store holding what earlier sessions left
InitLoad ==
  /\ InitDisplay
  /\ EstIdle
  /\ GenIdle
  /\ CleanIdle
  /\ UiIdle
  /\ PlayIdle
  /\ TrIdle
  /\ videoId \in VideoIds
  /\ loading = TRUE
  /\ error = Null
  /\ cache \in {f \in [VideoIds -> UNION {StoredFor(v) : v \in VideoIds}] :
                  \A v \in VideoIds : f[v] \in StoredFor(v)}
  /\ loads = <<>>
  /\ BatchIdle
  /\ YtIdle
  /\ VocIdle
  /\ CardIdle
  /\ RecentIdle

NextLoad ==
  \/ \E v \in VideoIds : Mount(v)
  \/ \E v \in VideoIds : Navigate(v)
  \/ \E k \in 1..MaxLoads, outcome \in DbOutcomes : getTranscriptSettles(k, outcome)
  \/ \E k \in 1..MaxLoads, v \in VideoIds : \E resp \in ApiOutcomes(v) : apiSettles(k, resp)
  \/ \E k \in 1..MaxLoads, outcome \in DbOutcomes : saveTranscriptSettles(k, outcome)

SpecLoad == InitLoad /\ [][NextLoad]_vars

(***************************************************************************)
(* src/lib/db.ts, lines 611-639: translateBatch.                           *)
(***************************************************************************)
\* line 619
batchSize == 3
\* line 620
delay == IF USE_FALLBACK THEN 100 ELSE 300

\* line 623: texts.slice(i, i + batchSize), as the 0-based indices it takes
sliceIndices(texts, i) == {k \in i..(i + batchSize - 1) : k < Len(texts)}

\* Promise.all handing the results back in the order the calls resolved
promiseAllByArrival(calls, order, i, n) == [k \in 1..n |-> calls[order[k] + 1]]

\* lines 626-628: Promise.all resolves to the results in the order of the
\* batch, whatever the order the calls resolved in
promiseAll(calls, order, i, n) == [k \in 1..n |-> calls[i + k]]

\* lines 622-628: the loop test and, for another batch, the calls of the batch
batchLoop ==
  /\ batchPc = "loop"
  /\ IF batchI < Len(batchTexts)
     THEN /\ batchCalls' =
               batchCalls \o [k \in 1..Cardinality(sliceIndices(batchTexts, batchI)) |-> Null]
          /\ batchPc' = "await"
     ELSE /\ batchPc' = "done"
          /\ UNCHANGED batchCalls
  /\ batchOrder' = <<>>
  /\ UNCHANGED <<batchTexts, batchI, batchResults, batchDelays, displayVars, estVars,
                 genVars, cleanVars, uiVars, playVars, trVars, pageVars, ytVars, vocVars, cardVars, recentVars>>

\* translateText(texts[j]) of the current batch resolves (it never rejects)
batchCallResolves(j, v) ==
  /\ batchPc = "await"
  /\ j \in 0..(Len(batchCalls) - 1)
  /\ batchCalls[j + 1] = Null
  /\ v \in Translations(batchTexts[j + 1])
  /\ batchCalls' = [batchCalls EXCEPT ![j + 1] = v]
  /\ batchOrder' = Append(batchOrder, j)
  /\ UNCHANGED <<batchTexts, batchPc, batchI, batchResults, batchDelays, displayVars,
                 estVars, genVars, cleanVars, uiVars, playVars, trVars, pageVars, ytVars, vocVars, cardVars, recentVars>>

\* lines 626-635: every call of the batch has resolved; the results are pushed
\* and the delay is started unless this was the last batch
batchJoin ==
  /\ batchPc = "await"
  /\ \A k \in 1..Len(batchCalls) : batchCalls[k] # Null
  /\ batchResults' =
       batchResults \o promiseAll(batchCalls, batchOrder, batchI, Len(batchOrder))
  /\ IF batchI + batchSize < Len(batchTexts)
     THEN /\ batchPc' = "delay"
          /\ batchDelays' = Append(batchDelays, delay)
          /\ UNCHANGED batchI
     ELSE /\ batchPc' = "loop"
          /\ batchI' = batchI + batchSize
          /\ UNCHANGED batchDelays
  /\ UNCHANGED <<batchTexts, batchCalls, batchOrder, displayVars, estVars, genVars,
                 cleanVars, uiVars, playVars, trVars, pageVars, ytVars, vocVars, cardVars, recentVars>>

\* line 634: the timeout fires; line 622: i += batchSize
batchDelayElapses ==
  /\ batchPc = "delay"
  /\ batchPc' = "loop"
  /\ batchI' = batchI + batchSize
  /\ UNCHANGED <<batchTexts, batchCalls, batchOrder, batchResults, batchDelays,
                 displayVars, estVars, genVars, cleanVars, uiVars, playVars, trVars,
                 pageVars, ytVars, vocVars, cardVars, recentVars>>

\* a call translateBatch(batchTexts) with or without an API key
InitBatch ==
  /\ InitDisplay
  /\ EstIdle
  /\ GenIdle
  /\ CleanIdle
  /\ UiIdle
  /\ PlayIdle
  /\ PageIdle
  /\ USE_FALLBACK \in BOOLEAN
  /\ trText = Str(<<>>)
  /\ trTargetLang = "zh-TW"
  /\ trPc = "idle"
  /\ trRequests = <<>>
  /\ trResponses = <<>>
  /\ trResult = Null
  /\ batchTexts \in BatchTexts
  /\ batchPc = "loop"
  /\ batchI = 0
  /\ batchCalls = <<>>
  /\ batchOrder = <<>>
  /\ batchResults = <<>>
  /\ batchDelays = <<>>
  /\ YtIdle
  /\ VocIdle
  /\ CardIdle
  /\ RecentIdle

NextBatch ==
  \/ batchLoop
  \/ \E j \in 0..(MaxTexts - 1), v \in UNION {Translations(x) : x \in CaptionTexts} :
       batchCallResolves(j, v)
  \/ batchJoin
  \/ batchDelayElapses

SpecBatch == InitBatch /\ [][NextBatch]_vars

(***************************************************************************)
(* getYoutubeTranscript (src/lib/db.ts 274-346): the Python service first, *)
(* the direct method when that call throws, then the mapping and the       *)
(* filter of the segments.                                                 *)
(***************************************************************************)
Throw(m) == [do |-> "throw", message |-> m]
Return(v) == [do |-> "return", value |-> v]

\* lines 119-143: fetchFromPythonService
fetchFromPythonService(resp) ==
  CASE resp.kind = "rejects" -> Throw("fetch failed")
    [] resp.kind = "notOk" ->
         IF Truthy(resp.error) THEN Throw("Transcripts disabled")
         ELSE Throw("Python service error")
    [] OTHER ->
         IF Truthy(resp.transcript) THEN Return(resp.transcript.items)
         ELSE Return(<<>>)

\* lines 300-311: one segment in the application's format
formatSegment(segment) ==
  [text |-> trim(segment.text),
   start |-> Rat(segment.offset, 1000),
   duration |-> Rat(IF segment.duration # 0 THEN segment.duration ELSE 2000, 1000),
   offset |-> segment.offset]

\* the segments kept whatever their text
filterKeepAll(segs) == segs

\* line 312: .filter((seg) => seg.text.length > 0)
filterNonEmpty(segs) == SelectSeq(segs, LAMBDA seg : Len(seg.text) > 0)

\* lines 292-321: from the transcript of the source that answered to the result
formatTranscript(t) ==
  IF Len(t) = 0
  THEN Throw("No transcript data returned. Video may not have captions.")
  ELSE LET result == filterNonEmpty([k \in 1..Len(t) |-> formatSegment(t[k])])
       IN  IF Len(result) = 0
           THEN Throw("No valid transcript segments after filtering")
           ELSE Return(result)

\* lines 328 and 335: the messages that contain the phrase looked for
MentionsCaptions == {"No captions available for this video"}
MentionsVideoPage == {"Failed to fetch video page: 429"}

\* lines 324-345: the catch gives the error its final message and throws again
rethrow(message) ==
  [state |-> "rejected",
   message |->
     CASE message \in MentionsCaptions ->
            <<"This video does not have captions available.">>
       [] message \in MentionsVideoPage ->
            <<"Unable to access YouTube.">>
       [] OTHER -> <<"Failed to fetch transcript: ", message>>]

\* lines 292-345 once a source has answered with transcript t
settle(t) ==
  LET r == formatTranscript(t)
  IN  IF r.do = "return" THEN [state |-> "resolved", value |-> r.value]
      ELSE rethrow(r.message)

\* line 284: the call starts with the Python service
getYoutubeTranscriptCall ==
  /\ ytPc = "idle"
  /\ ytPc' = "python"
  /\ ytCalls' = <<"python">>
  /\ UNCHANGED <<ytResponses, ytResult, displayVars, estVars, genVars, cleanVars,
                 uiVars, playVars, trVars, pageVars, batchVars, vocVars, cardVars, recentVars>>

\* lines 284-289: the Python call settles; a throw starts the direct method
pythonSettles(resp) ==
  /\ ytPc = "python"
  /\ LET r == fetchFromPythonService(resp)
     IN  /\ ytResponses' = <<r>>
         /\ IF r.do = "throw"
            THEN /\ ytPc' = "raw"
                 /\ ytCalls' = Append(ytCalls, "raw")
                 /\ UNCHANGED ytResult
            ELSE /\ ytPc' = "done"
                 /\ ytResult' = settle(r.value)
                 /\ UNCHANGED ytCalls
  /\ UNCHANGED <<displayVars, estVars, genVars, cleanVars, uiVars, playVars, trVars,
                 pageVars, batchVars, vocVars, cardVars, recentVars>>

\* line 288: the direct method settles
rawSettles(r) ==
  /\ ytPc = "raw"
  /\ ytResponses' = Append(ytResponses, r)
  /\ ytPc' = "done"
  /\ ytResult' = IF r.do = "throw" THEN rethrow(r.message) ELSE settle(r.value)
  /\ UNCHANGED <<ytCalls, displayVars, estVars, genVars, cleanVars, uiVars, playVars,
                 trVars, pageVars, batchVars, vocVars, cardVars, recentVars>>

InitYoutube ==
  /\ InitDisplay
  /\ EstIdle
  /\ GenIdle
  /\ CleanIdle
  /\ UiIdle
  /\ PlayIdle
  /\ TrIdle
  /\ PageIdle
  /\ BatchIdle
  /\ YtIdle
  /\ VocIdle
  /\ CardIdle
  /\ RecentIdle

NextYoutube ==
  \/ getYoutubeTranscriptCall
  \/ \E resp \in PythonResponses : pythonSettles(resp)
  \/ \E r \in RawOutcomes : rawSettles(r)

SpecYoutube == InitYoutube /\ [][NextYoutube]_vars

(***************************************************************************)
(* The vocabulary of the workspace page (page.tsx 122-244): loadSavedWords *)
(* on a page load, handleSaveWord and handleDeleteWord.  A saved word is   *)
(* its id and its word; a handler works on the savedWords array of the     *)
(* render in which it was called.  Each call also records whether an       *)
(* earlier call was still running when it started.                         *)
(***************************************************************************)
\* lines 236 and 238: savedWords.filter(w => w.id !== id)
filterOut(words, id) == SelectSeq(words, LAMBDA w : w.id # id)

allSettled == \A k \in 1..Len(vocOps) : vocOps[k].pc \in {"done", "failed"}

\* lines 122-159: a page load as who; the select of a signed-in user answers
\* with the rows or with an error, and the catch reads the local entry
loadSavedWords(who, outcome) ==
  IF who = "user" /\ outcome = "ok" THEN remote
  ELSE IF stored.present THEN stored.value
  ELSE <<>>

\* lines 50-55: the page is loaded a second time, signed in or not
PageLoad(who, outcome) ==
  /\ allSettled
  /\ ~reloaded
  /\ reloaded' = TRUE
  /\ session' = who
  /\ vocOps' = <<>>
  /\ savedWords' = loadSavedWords(who, outcome)
  /\ UNCHANGED <<stored, remote, now, nextRemoteId, authWrote, displayVars, estVars,
                 genVars, cleanVars, uiVars, playVars, trVars, pageVars, batchVars,
                 ytVars, cardVars, recentVars>>

\* line 173: handleSaveWord(word, ...) is called; it holds this render's savedWords
saveWordCall(word) ==
  /\ Len(vocOps) < MaxOps
  /\ vocOps' = Append(vocOps, [kind |-> "save", word |-> word, target |-> NoId,
                               snapshot |-> savedWords, pc |-> "user", made |-> NoId,
                               overlaps |-> ~allSettled])
  /\ UNCHANGED <<session, savedWords, stored, remote, now, nextRemoteId, reloaded,
                 authWrote, displayVars, estVars, genVars, cleanVars, uiVars, playVars,
                 trVars, pageVars, batchVars, ytVars, cardVars, recentVars>>

\* line 223: handleDeleteWord(id) is called on a word of the list shown
deleteWordCall(id) ==
  /\ Len(vocOps) < MaxOps
  /\ \E k \in 1..Len(savedWords) : savedWords[k].id = id
  /\ vocOps' = Append(vocOps, [kind |-> "delete", word |-> "", target |-> id,
                               snapshot |-> savedWords, pc |-> "user", made |-> NoId,
                               overlaps |-> ~allSettled])
  /\ UNCHANGED <<session, savedWords, stored, remote, now, nextRemoteId, reloaded,
                 authWrote, displayVars, estVars, genVars, cleanVars, uiVars, playVars,
                 trVars, pageVars, batchVars, ytVars, cardVars, recentVars>>

\* lines 175 and 225: getCurrentUser settles. It rejects (the catch alerts), or
\* resolves to the user, and the request to the table is sent, or to null, and
\* lines 207-217 and 236-240 run: the list built from the call's savedWords is
\* set and written to the local entry.  t is Date.now() at line 208.
getCurrentUserSettles(k, ok, t) ==
  /\ k \in 1..Len(vocOps)
  /\ vocOps[k].pc = "user"
  /\ IF ~ok
     THEN /\ vocOps' = [vocOps EXCEPT ![k].pc = "failed"]
          /\ UNCHANGED <<savedWords, stored, now>>
     ELSE IF session = "user"
     THEN /\ vocOps' = [vocOps EXCEPT ![k].pc = "remote"]
          /\ UNCHANGED <<savedWords, stored, now>>
     ELSE IF vocOps[k].kind = "save"
     THEN LET newWord == [id |-> [src |-> "local", n |-> t], word |-> vocOps[k].word]
              updatedWords == <<newWord>> \o vocOps[k].snapshot
          IN  /\ t \in {now, now + 1}
              /\ now' = t
              /\ savedWords' = updatedWords
              /\ stored' = [present |-> TRUE, value |-> updatedWords]
              /\ vocOps' = [vocOps EXCEPT ![k].pc = "done", ![k].made = newWord.id]
     ELSE LET updatedWords == filterOut(vocOps[k].snapshot, vocOps[k].target)
          IN  /\ savedWords' = updatedWords
              /\ stored' = [present |-> TRUE, value |-> updatedWords]
              /\ vocOps' = [vocOps EXCEPT ![k].pc = "done"]
              /\ UNCHANGED now
  /\ UNCHANGED <<session, remote, nextRemoteId, reloaded, authWrote, displayVars,
                 estVars, genVars, cleanVars, uiVars, playVars, trVars, pageVars,
                 batchVars, ytVars, cardVars, recentVars>>

\* lines 178-205 and 228-240: the request of a signed-in user settles.  An
\* error is thrown to the catch.  An inserted row is put in front of the call's
\* savedWords; a deleted row is filtered out of them, and the list is set and
\* written to the local entry.
vocabularySettles(k, ok) ==
  /\ k \in 1..Len(vocOps)
  /\ vocOps[k].pc = "remote"
  /\ IF ~ok
     THEN /\ vocOps' = [vocOps EXCEPT ![k].pc = "failed"]
          /\ UNCHANGED <<savedWords, stored, remote, nextRemoteId, authWrote>>
     ELSE IF vocOps[k].kind = "save"
     THEN LET newWord == [id |-> [src |-> "remote", n |-> nextRemoteId + 1],
                          word |-> vocOps[k].word]
          IN  /\ nextRemoteId' = nextRemoteId + 1
              /\ remote' = <<newWord>> \o remote
              /\ savedWords' = <<newWord>> \o vocOps[k].snapshot
              /\ vocOps' = [vocOps EXCEPT ![k].pc = "done", ![k].made = newWord.id]
              /\ UNCHANGED <<stored, authWrote>>
     ELSE LET updatedWords == filterOut(vocOps[k].snapshot, vocOps[k].target)
          IN  /\ remote' = filterOut(remote, vocOps[k].target)
              /\ savedWords' = updatedWords
              /\ stored' = [present |-> TRUE, value |-> updatedWords]
              /\ authWrote' = TRUE
              /\ vocOps' = [vocOps EXCEPT ![k].pc = "done"]
              /\ UNCHANGED nextRemoteId
  /\ UNCHANGED <<session, now, reloaded, displayVars, estVars, genVars, cleanVars,
                 uiVars, playVars, trVars, pageVars, batchVars, ytVars, cardVars, recentVars>>

\* the page has just been opened in a browser without a stored vocabulary
InitVocabulary ==
  /\ InitDisplay
  /\ EstIdle
  /\ GenIdle
  /\ CleanIdle
  /\ UiIdle
  /\ PlayIdle
  /\ TrIdle
  /\ PageIdle
  /\ BatchIdle
  /\ YtIdle
  /\ session \in Sessions
  /\ savedWords = <<>>
  /\ stored = [present |-> FALSE, value |-> <<>>]
  /\ remote = <<>>
  /\ vocOps = <<>>
  /\ now = 0
  /\ nextRemoteId = 0
  /\ reloaded = FALSE
  /\ authWrote = FALSE
  /\ CardIdle
  /\ RecentIdle

NextVocabulary ==
  \/ \E who \in Sessions, outcome \in {"ok", "error"} : PageLoad(who, outcome)
  \/ \E word \in VocWords : saveWordCall(word)
  \/ \E k \in 1..Len(savedWords) : deleteWordCall(savedWords[k].id)
  \/ \E k \in 1..MaxOps, ok \in BOOLEAN, t \in {now, now + 1} :
       getCurrentUserSettles(k, ok, t)
  \/ \E k \in 1..MaxOps, ok \in BOOLEAN : vocabularySettles(k, ok)

SpecVocabulary == InitVocabulary /\ [][NextVocabulary]_vars

(***************************************************************************)
(* VocabularyPanel (src/components/VocabularyPanel.tsx): the list of saved *)
(* words with its search box, and the flashcard view.                      *)
(***************************************************************************)
\* String.prototype.includes
includes(w, t) == \E i \in 1..(Len(w) - Len(t) + 1) : SubSeq(w, i, i + Len(t) - 1) = t

\* lines 26-29
filteredWords ==
  SelectSeq(panelWords, LAMBDA word :
    \/ includes(toLowerCase(word.word), toLowerCase(searchTerm))
    \/ includes(toLowerCase(word.translation), toLowerCase(searchTerm)))

\* line 69: the flashcard view is rendered, the list view otherwise
flashcardView == showFlashcards /\ Len(filteredWords) > 0
\* line 70 and 94: currentCard is undefined and reading currentCard.word throws
renderThrows == flashcardView /\ currentCardIndex >= Len(filteredWords)

\* lines 37-40
handleNextCard ==
  /\ flashcardView /\ ~renderThrows
  /\ showAnswer' = FALSE
  /\ currentCardIndex' = (currentCardIndex + 1) % Len(filteredWords)
  /\ UNCHANGED <<panelWords, searchTerm, showFlashcards, displayVars, estVars, genVars,
                 cleanVars, uiVars, playVars, trVars, pageVars, batchVars, ytVars,
                 vocVars, recentVars>>

\* lines 42-45
handlePrevCard ==
  /\ flashcardView /\ ~renderThrows
  /\ showAnswer' = FALSE
  /\ currentCardIndex' =
       (currentCardIndex - 1 + Len(filteredWords)) % Len(filteredWords)
  /\ UNCHANGED <<panelWords, searchTerm, showFlashcards, displayVars, estVars, genVars,
                 cleanVars, uiVars, playVars, trVars, pageVars, batchVars, ytVars,
                 vocVars, recentVars>>

\* line 89: the card is turned over
flipCard ==
  /\ flashcardView /\ ~renderThrows
  /\ showAnswer' = ~showAnswer
  /\ UNCHANGED <<panelWords, searchTerm, showFlashcards, currentCardIndex, displayVars,
                 estVars, genVars, cleanVars, uiVars, playVars, trVars, pageVars,
                 batchVars, ytVars, vocVars, recentVars>>

\* line 79: Close
closeFlashcards ==
  /\ flashcardView /\ ~renderThrows
  /\ showFlashcards' = FALSE
  /\ UNCHANGED <<panelWords, searchTerm, currentCardIndex, showAnswer, displayVars, estVars,
                 genVars, cleanVars, uiVars, playVars, trVars, pageVars, batchVars,
                 ytVars, vocVars, recentVars>>

\* lines 157-163: the Flashcards button of the list view
openFlashcards ==
  /\ ~flashcardView
  /\ Len(filteredWords) > 0
  /\ showFlashcards' = TRUE
  /\ UNCHANGED <<panelWords, searchTerm, currentCardIndex, showAnswer, displayVars, estVars,
                 genVars, cleanVars, uiVars, playVars, trVars, pageVars, batchVars,
                 ytVars, vocVars, recentVars>>

\* line 152: the search box of the list view
changeSearchTerm(t) ==
  /\ ~flashcardView
  /\ searchTerm' = t
  /\ UNCHANGED <<panelWords, showFlashcards, currentCardIndex, showAnswer, displayVars,
                 estVars, genVars, cleanVars, uiVars, playVars, trVars, pageVars,
                 batchVars, ytVars, vocVars, recentVars>>

\* line 203: Remove on a word of the list; the page filters it out of words
deleteListedWord(id) ==
  /\ ~flashcardView
  /\ \E k \in 1..Len(filteredWords) : filteredWords[k].id = id
  /\ panelWords' = filterOut(panelWords, id)
  /\ UNCHANGED <<searchTerm, showFlashcards, currentCardIndex, showAnswer, displayVars,
                 estVars, genVars, cleanVars, uiVars, playVars, trVars, pageVars,
                 batchVars, ytVars, vocVars, recentVars>>

\* the panel is mounted with some saved words
InitFlashcards ==
  /\ InitDisplay
  /\ EstIdle
  /\ GenIdle
  /\ CleanIdle
  /\ UiIdle
  /\ PlayIdle
  /\ TrIdle
  /\ PageIdle
  /\ BatchIdle
  /\ YtIdle
  /\ VocIdle
  /\ panelWords \in WordLists
  /\ searchTerm = <<>>
  /\ showFlashcards = FALSE
  /\ currentCardIndex = 0
  /\ showAnswer = FALSE
  /\ RecentIdle

NextFlashcards ==
  \/ handleNextCard
  \/ handlePrevCard
  \/ flipCard
  \/ closeFlashcards
  \/ openFlashcards
  \/ \E t \in SearchTerms : changeSearchTerm(t)
  \/ \E w \in CardWords : deleteListedWord(w.id)

SpecFlashcards == InitFlashcards /\ [][NextFlashcards]_vars

(***************************************************************************)
(* useRecentVideos (src/hooks/useRecentVideos.ts): the list of recently    *)
(* opened videos and its copy in localStorage.  An entry is kept as its    *)
(* videoId; title and timestamp are carried along and never read.          *)
(***************************************************************************)
MAX_RECENT_VIDEOS == 10

\* line 39: .slice(0, MAX_RECENT_VIDEOS)
sliceRecent(list) == SubSeq(list, 1, Min(Len(list), MAX_RECENT_VIDEOS))

\* the updated list without line 31: the new entry is put in front of prev
updatedKeepAll(prev, v) == sliceRecent(<<[videoId |-> v]>> \o prev)

\* lines 31-39: filtered, newVideo and updated of the state updater
updated(prev, v) ==
  LET filtered == SelectSeq(prev, LAMBDA x : x.videoId # v)
      newVideo == [videoId |-> v]
  IN  sliceRecent(<<newVideo>> \o filtered)

\* lines 28-44: addVideo(videoId, title); the updater runs on the current list
addVideo(v) ==
  /\ Len(added) < MaxAdds
  /\ recentVideos' = updated(recentVideos, v)
  /\ recentStored' = [present |-> TRUE, value |-> updated(recentVideos, v)]
  /\ added' = Append(added, v)
  /\ UNCHANGED <<displayVars, estVars, genVars, cleanVars, uiVars, playVars, trVars,
                 pageVars, batchVars, ytVars, vocVars, cardVars>>

\* the videos opened: one never opened before (the next number), the oldest
\* of the list, or the newest of the list again
VideosToOpen ==
  {Len(added) + 1}
    \cup (IF recentVideos = <<>> THEN {}
          ELSE {recentVideos[Len(recentVideos)].videoId, recentVideos[1].videoId})

InitRecent ==
  /\ InitDisplay
  /\ EstIdle
  /\ GenIdle
  /\ CleanIdle
  /\ UiIdle
  /\ PlayIdle
  /\ TrIdle
  /\ PageIdle
  /\ BatchIdle
  /\ YtIdle
  /\ VocIdle
  /\ CardIdle
  /\ recentVideos = <<>>
  /\ recentStored = [present |-> FALSE, value |-> <<>>]
  /\ added = <<>>

NextRecent == \E v \in VideosToOpen : addVideo(v)

SpecRecent == InitRecent /\ [][NextRecent]_vars

(***************************************************************************)
(* Tokens of a text, stated without the split: a token is a maximal run of *)
(* characters that are not whitespace.                                     *)
(***************************************************************************)
TokenStarts(text) ==
  {i \in 1..Len(text) :
     text[i] \notin Whitespace /\ (i = 1 \/ text[i - 1] \in Whitespace)}

\* the position of the last character of the token that starts at i
TokenEnd(text, i) ==
  CHOOSE j \in i..Len(text) :
    /\ \A k \in i..j : text[k] \notin Whitespace
    /\ (j = Len(text) \/ text[j + 1] \in Whitespace)

\* the n-th token (n is 1-based, n <= number of tokens)
NthToken(text, n) ==
  LET i == CHOOSE p \in TokenStarts(text) :
             Cardinality({q \in TokenStarts(text) : q < p}) = n - 1
  IN  SubSeq(text, i, TokenEnd(text, i))

TokenCount(text) == Cardinality(TokenStarts(text))

C2_CursorContinuity ==
  estPc = "done" =>
    /\ Len(estResult) >= 1 => estResult[1].start = estSegment.start
    /\ \A i \in 1..(Len(estResult) - 1) : estResult[i].end = estResult[i + 1].start

C2_Witness ==
  /\ estPc = "done"
  /\ Len(estResult) = 2
  /\ Len(estResult[1].word) # Len(estResult[2].word)
  /\ RLt(estResult[1].start, estResult[1].end)
  /\ estResult[1].end = estResult[2].start

ProbeTimes(ws) ==
  UNION {{ws[i].start, ws[i].end,
          RMul(RAdd(ws[i].start, ws[i].end), Rat(1, 2))} : i \in 1..Len(ws)}

ActiveAt(ws, t) == {i \in 1..Len(ws) : RLe(ws[i].start, t) /\ RLt(t, ws[i].end)}

\* C8: at any time at most one record of a segment satisfies start <= t < end.
C8_AtMostOneActive ==
  estPc = "done" =>
    \A t \in ProbeTimes(estResult) : Cardinality(ActiveAt(estResult, t)) <= 1

C8_Witness ==
  /\ estPc = "done"
  /\ Len(estResult) = 2
  /\ ActiveAt(estResult, estResult[1].start) = {1}
  /\ ActiveAt(estResult, estResult[1].end) = {2}

AllottedDuration(r) == RSub(r.end, r.start)

\* C10: in a segment with duration > 0 the allotted durations are proportional to
\* the token lengths: equal lengths get equal durations and a longer token gets
\* strictly more.
C10_ProportionalToLength ==
  (estPc = "done" /\ RLt(Zero, estSegment.duration)) =>
    \A i, j \in 1..Len(estResult) :
      LET li == Len(estResult[i].word)
          lj == Len(estResult[j].word)
          di == AllottedDuration(estResult[i])
          dj == AllottedDuration(estResult[j])
      IN  /\ RMul(di, FromInt(lj)) = RMul(dj, FromInt(li))
          /\ li = lj => di = dj
          /\ li > lj => RLt(dj, di)

\* the documentation's example: "strangers" gets more than "no" and "to"
C10_Witness ==
  /\ estPc = "done"
  /\ estSegment = ExampleSegment
  /\ Len(estResult) = 5
  /\ Len(estResult[3].word) = 9
  /\ Len(estResult[2].word) = 2
  /\ Len(estResult[4].word) = 2
  /\ RLt(AllottedDuration(estResult[2]), AllottedDuration(estResult[3]))
  /\ RLt(AllottedDuration(estResult[4]), AllottedDuration(estResult[3]))

\* C3: findActiveWord(words, t) is the smallest index whose record satisfies
\* start <= t < end, and -1 exactly when no record does.
C3_FirstActiveOrNone ==
  LET M == ActiveAt(wordTimestamps, currentTime)
  IN  IF M = {} THEN activeWordIndex = -1
      ELSE /\ activeWordIndex + 1 \in M
           /\ \A j \in M : activeWordIndex + 1 <= j

\* two records are active at once and the first of them is not the first record
C3_Witness ==
  /\ Cardinality(ActiveAt(wordTimestamps, currentTime)) = 2
  /\ activeWordIndex = 1

\* C4 as stated: for the words of any transcript, no word is found at a time
\* before words[0].start or at or after the last record's end.
C4_AsStated ==
  Len(wordTimestamps) >= 1 =>
    ((\/ RLt(currentTime, wordTimestamps[1].start)
      \/ RLe(wordTimestamps[Len(wordTimestamps)].end, currentTime))
       => activeWordIndex = -1)

\* the input contract: no negative duration, and each segment ends before the
\* next one starts (so starts are non-decreasing)
InOrder(tr) ==
  /\ \A k \in 1..Len(tr) : RLe(Zero, tr[k].duration)
  /\ \A k \in 1..(Len(tr) - 1) : RLe(RAdd(tr[k].start, tr[k].duration), tr[k + 1].start)

\* C4 (amended): when the segments have non-negative durations and do not
\* overlap in input order, no word is found at a time before words[0].start or
\* at or after the last record's end.
C4_NoneOutsideOrderedSpan ==
  (InOrder(transcript) /\ Len(wordTimestamps) >= 1) =>
    ((\/ RLt(currentTime, wordTimestamps[1].start)
      \/ RLe(wordTimestamps[Len(wordTimestamps)].end, currentTime))
       => activeWordIndex = -1)

C4_Witness ==
  /\ Len(transcript) = 2
  /\ InOrder(transcript)
  /\ Len(wordTimestamps) = 4
  /\ RLt(transcript[1].start, transcript[2].start)
  /\ RLt(wordTimestamps[4].start, wordTimestamps[4].end)
  /\ RLe(wordTimestamps[4].end, currentTime)
  /\ activeWordIndex = -1

\* the positions of the records that name segment k (1-based position in tr)
RecordsOf(ws, k) == {i \in 1..Len(ws) : ws[i].segmentIndex = k - 1}

\* C6: a segment without tokens makes estimateWordTimings return the empty
\* sequence and contributes no record to generateWordTimestamps, and every other
\* segment's records carry that segment's own input position as segmentIndex.
C6_TokenlessSegmentSkipped ==
  genPc = "done" =>
    \A k \in 1..Len(genTranscript) :
      LET n == TokenCount(genTranscript[k].text)
      IN  /\ n = 0 =>
               /\ estimateWordTimings(genTranscript[k], k - 1) = <<>>
               /\ RecordsOf(genResult, k) = {}
          /\ n > 0 =>
               /\ Cardinality(RecordsOf(genResult, k)) = n
               /\ \A i \in RecordsOf(genResult, k) :
                    /\ genResult[i].word =
                         NthToken(genTranscript[k].text, genResult[i].wordIndex + 1)
                    /\ genResult[i].wordIndex = 0 =>
                         genResult[i].start = genTranscript[k].start

\* an empty text, then a segment with one token at another start
C6_Witness ==
  /\ genPc = "done"
  /\ Len(genTranscript) = 2
  /\ genTranscript[1].text = <<>>
  /\ genTranscript[1].start # genTranscript[2].start
  /\ Len(genResult) = 1
  /\ genResult[1].segmentIndex = 1
  /\ genResult[1].start = genTranscript[2].start

\* C7: the records of a segment with duration 0 all have start = end =
\* segment.start, and findActiveWord never returns a record with start = end.
C7_ZeroWidthNeverActive ==
  /\ \A i \in 1..Len(wordTimestamps) :
       LET seg == transcript[wordTimestamps[i].segmentIndex + 1]
       IN  seg.duration = Zero =>
             /\ wordTimestamps[i].start = seg.start
             /\ wordTimestamps[i].end = seg.start
  /\ activeWordIndex >= 0 =>
       wordTimestamps[activeWordIndex + 1].start # wordTimestamps[activeWordIndex + 1].end

\* the playback time sits exactly on zero-width records and nothing is found
C7_Witness ==
  /\ Len(wordTimestamps) >= 2
  /\ \A i \in 1..Len(wordTimestamps) :
       /\ wordTimestamps[i].start = currentTime
       /\ wordTimestamps[i].end = currentTime
  /\ activeWordIndex = -1

\* the number of records before those of segment k (1-based), by the estimator
RECURSIVE RecordsBefore(_, _)
RecordsBefore(tr, k) ==
  IF k <= 1 THEN 0
  ELSE RecordsBefore(tr, k - 1) + Len(estimateWordTimings(tr[k - 1], k - 2))

\* C9: generateWordTimestamps(segments) is the concatenation in input order of
\* estimateWordTimings(segments[i], i); segmentIndex never decreases along it and
\* wordIndex restarts at 0 where segmentIndex changes.
C9_ConcatenationInOrder ==
  genPc = "done" =>
    /\ Len(genResult) = RecordsBefore(genTranscript, Len(genTranscript) + 1)
    /\ \A k \in 1..Len(genTranscript) :
         LET part == estimateWordTimings(genTranscript[k], k - 1)
             off == RecordsBefore(genTranscript, k)
         IN  \A i \in 1..Len(part) :
               /\ off + i <= Len(genResult)
               /\ genResult[off + i] = part[i]
    /\ Len(genResult) >= 1 => genResult[1].wordIndex = 0
    /\ \A i \in 1..(Len(genResult) - 1) :
         /\ genResult[i].segmentIndex <= genResult[i + 1].segmentIndex
         /\ genResult[i].segmentIndex # genResult[i + 1].segmentIndex =>
              genResult[i + 1].wordIndex = 0

C9_Witness ==
  /\ genPc = "done"
  /\ Len(genTranscript) = 2
  /\ Len(genResult) = 3
  /\ genTranscript[1].start # genTranscript[2].start
  /\ genResult[2].segmentIndex = 0
  /\ genResult[2].wordIndex = 1
  /\ genResult[3].segmentIndex = 1
  /\ genResult[3].wordIndex = 0
  /\ genResult[3].start = genTranscript[2].start

\* C11: for a segment with duration > 0 and at least two tokens, the starts of
\* the records estimateWordTimings returns strictly increase in wordIndex order.
C11_StartsStrictlyIncrease ==
  (estPc = "done" /\ RLt(Zero, estSegment.duration) /\ Len(estResult) >= 2) =>
    \A i \in 1..(Len(estResult) - 1) :
      /\ estResult[i].wordIndex + 1 = estResult[i + 1].wordIndex
      /\ RLt(estResult[i].start, estResult[i + 1].start)

\* the documentation's example: five records, the first starting at 0
C11_Witness ==
  /\ estPc = "done"
  /\ estSegment = ExampleSegment
  /\ Len(estResult) = 5
  /\ estResult[1].start = Zero
  /\ RLt(estResult[4].start, estResult[5].start)

\* binary search over 0-based positions lo..hi of ws for the last record with
\* start <= t; ans is the best position found so far (-1: none)
RECURSIVE LastStartAtMost(_, _, _, _, _)
LastStartAtMost(ws, t, lo, hi, ans) ==
  IF lo > hi THEN ans
  ELSE LET mid == (lo + hi) \div 2
       IN  IF RLe(ws[mid + 1].start, t)
           THEN LastStartAtMost(ws, t, mid + 1, hi, mid)
           ELSE LastStartAtMost(ws, t, lo, mid - 1, ans)

\* the lookup by binary search: the last record with start <= t, kept only if
\* t < its end
BinarySearchLookup(ws, t) ==
  LET p == LastStartAtMost(ws, t, 0, Len(ws) - 1, -1)
  IN  IF p >= 0 /\ RLt(t, ws[p + 1].end) THEN p ELSE -1

\* C12: for segments with non-negative durations that do not overlap in input
\* order, start never decreases along the output of generateWordTimestamps, and
\* the lookup by binary search returns what findActiveWord's scan returns.
C12_BinarySearchAgrees ==
  InOrder(transcript) =>
    /\ \A i \in 1..(Len(wordTimestamps) - 1) :
         RLe(wordTimestamps[i].start, wordTimestamps[i + 1].start)
    /\ BinarySearchLookup(wordTimestamps, currentTime) = activeWordIndex

\* two segments in order, and the last of the four words is the active one
C12_Witness ==
  /\ InOrder(transcript)
  /\ Len(transcript) = 2
  /\ Len(wordTimestamps) = 4
  /\ RLt(wordTimestamps[1].start, wordTimestamps[3].start)
  /\ activeWordIndex = 3
  /\ BinarySearchLookup(wordTimestamps, currentTime) = 3

\* the characters of w that line 109 keeps, in order, picked by position
KeptPositions(w) == {i \in 1..Len(w) : w[i] \notin StripChars}
KeptChars(w) ==
  [n \in 1..Cardinality(KeptPositions(w)) |->
     w[CHOOSE p \in KeptPositions(w) :
         Cardinality({q \in KeptPositions(w) : q < p}) = n - 1]]

\* C13: cleanWord(w) is w without the characters of the stripped class, with
\* every whitespace run made one space, without leading or trailing whitespace
\* and in lower case: its words are the lower-cased words of what is kept of w,
\* one space apart, and it holds no stripped character, no upper-case letter, no
\* two spaces in a row and no whitespace at either end.
C13_CleanWordNormalForm ==
  cleanPc = "done" =>
    LET r == cleanResult
        k == KeptChars(cleanInput)
    IN  /\ \A i \in 1..Len(r) :
             /\ r[i] \notin StripChars
             /\ r[i] \notin Uppercase
             /\ r[i] \in Whitespace => r[i] = " "
        /\ \A i \in 1..(Len(r) - 1) : ~(r[i] = " " /\ r[i + 1] = " ")
        /\ Len(r) >= 1 => (r[1] \notin Whitespace /\ r[Len(r)] \notin Whitespace)
        /\ TokenCount(r) = TokenCount(k)
        /\ \A n \in 1..TokenCount(k) :
             LET tok == NthToken(k, n)
             IN  NthToken(r, n) = [i \in 1..Len(tok) |-> LowerOf(tok[i])]
        /\ cleanInput = NoteExample => r = <<"m", "m", "m">>
        /\ cleanInput = SpacesExample =>
             r = <<"m", "u", "l", "t", "i", " ", "s", "p", "a", "c", "e">>

\* clean("Hello,") = "hello"
C13_Witness ==
  /\ cleanPc = "done"
  /\ cleanInput = HelloExample
  /\ cleanResult = <<"h", "e", "l", "l", "o">>


(***************************************************************************)
(* The popover of the word-by-word display (SpecWordClick).                *)
(***************************************************************************)
\* the segment that contains record number i (0-based)
SegmentOfRecord(i) == transcript[wordTimestamps[i + 1].segmentIndex + 1]
\* the last handler run was a save press that called onSaveWord
SavePressCalled == lastEvent.kind = "save" /\ Len(saveCalls) > lastEvent.calls
\* the last handler run was a click on a token whose cleaned form has fewer
\* than 2 characters
ShortTokenClicked(ev) ==
  ev.kind = "click" /\ Len(cleanWord(wordTimestamps[ev.index + 1].word)) < 2

\* C14: when a word is saved, the context, timestamp and translation handed to
\* onSaveWord are the text, start and translation of the segment that contains
\* the clicked word, whatever the playback position is when save is pressed.
C14_ContextOfClickedSegment ==
  SavePressCalled =>
    LET call == saveCalls[Len(saveCalls)]
        segment == SegmentOfRecord(lastEvent.clicked)
    IN  /\ call.context = segment.text
        /\ call.timestamp = segment.start
        /\ call.translation = segment.translation

\* C15: a press of save after a click on a lookup-worthy word invokes
\* onSaveWord exactly once with that word and closes the popover, at every
\* playback position, also when no word is active.
C15_SavePressSavesOnce ==
  lastEvent.kind = "save" =>
    /\ Len(saveCalls) = lastEvent.calls + 1
    /\ saveCalls[Len(saveCalls)].word = lastEvent.word
    /\ selectedWord = NoWord

\* C17: a click on a token whose cleaned form is empty or shorter than 2
\* characters leaves selectedWord, popoverPosition, wordDefinition,
\* loadingDefinition and autoScroll unchanged and issues no dictionary lookup.
C17_ShortTokenClickChangesNothing ==
  [][(lastEvent' # lastEvent /\ ShortTokenClicked(lastEvent')) =>
       UNCHANGED <<selectedWord, popoverPosition, wordDefinition,
                   loadingDefinition, autoScroll, pendingLookups>>]_vars
\* a short token was clicked while the popover of an earlier click was open
\* and its lookup was still awaited
C17_Witness ==
  /\ ShortTokenClicked(lastEvent)
  /\ selectedWord # NoWord
  /\ loadingDefinition
  /\ pendingLookups # <<>>
  /\ ~autoScroll

(***************************************************************************)
(* Continuous playback (SpecPlayback).                                     *)
(***************************************************************************)
RECURSIVE SampleTimes(_, _)
\* the times sampled from t on, one poll period apart, up to last
SampleTimes(t, last) ==
  IF RLt(last, t) THEN {} ELSE {t} \cup SampleTimes(RAdd(t, PollPeriod), last)
\* the samples taken so far at which record number i (0-based) was the active word
SamplesActive(i) ==
  {t \in SampleTimes(playStart, currentTime) :
     /\ RLe(wordTimestamps[i + 1].start, t)
     /\ RLt(t, wordTimestamps[i + 1].end)
     /\ findActiveWord(wordTimestamps, t) = i}

\* C16: with the playback time sampled every 50 ms during continuous forward
\* playback at normal speed, every word with a non-empty interval that the
\* playback has run through was the active word at one sample at least.
C16_NoWordSkipped ==
  \A i \in 0..(Len(wordTimestamps) - 1) :
    LET w == wordTimestamps[i + 1]
    IN  (RLt(w.start, w.end) /\ RLe(playStart, w.start) /\ RLe(w.end, currentTime))
          => SamplesActive(i) # {}

(***************************************************************************)
(* translateText (SpecTranslate).                                          *)
(***************************************************************************)
\* the Gemini call failed: the fetch rejected, the status is an error, or
\* reading the body threw
GeminiFailed(resp) ==
  \/ resp.kind = "rejects"
  \/ ~resp.ok
  \/ ~resp.json
  \/ (Truthy(resp.text) /\ resp.text.type # "string")
\* the free endpoint's call failed in the same ways
FallbackFailed(resp) ==
  \/ resp.kind = "rejects"
  \/ ~resp.ok
  \/ ~resp.json
  \/ (resp.data0 # Undefined /\ resp.data0.type # "array")
  \/ (resp.data0 # Undefined /\ resp.data0.type = "array"
      /\ \E k \in 1..Len(resp.data0.items) : resp.data0.items[k] = Undefined)
ToGemini(req) == req.endpoint = "generativelanguage.googleapis.com"
ToFallback(req) ==
  req.endpoint = "translate.googleapis.com" /\ req.q = trText /\ req.tl = trTargetLang

\* C18: translateText never rejects and resolves to a string; without an API
\* key the Gemini endpoint is never called and the fallback is used; when the
\* Gemini call fails (error status or exception) the fallback is used; when
\* the fallback fails the original text is returned unchanged.
C18_TranslateNeverRejects ==
  /\ (trPc = "done") = (trResult # Null)
  /\ trResult # Null => (trResult.state = "resolved" /\ trResult.value.type = "string")
  /\ (USE_FALLBACK /\ trPc \in {"fallback", "done"}) =>
       (Len(trRequests) = 1 /\ ToFallback(trRequests[1]))
  /\ \A k \in 1..Len(trRequests) : ToGemini(trRequests[k]) => (k = 1 /\ ~USE_FALLBACK)
  /\ (~USE_FALLBACK /\ trResponses # <<>> /\ GeminiFailed(trResponses[1])) =>
       (Len(trRequests) = 2 /\ ToFallback(trRequests[2]))
  /\ (trPc = "done" /\ ToFallback(trRequests[Len(trRequests)])
      /\ FallbackFailed(trResponses[Len(trResponses)])) =>
       trResult.value = trText
\* with a key: Gemini answered 500, the fallback's fetch rejected, and the
\* call resolved to its text
C18_Witness ==
  /\ trPc = "done"
  /\ ~USE_FALLBACK
  /\ Len(trResponses) = 2
  /\ trResponses[1].kind = "status" /\ trResponses[1].status = 500
  /\ trResponses[2].kind = "rejects"
  /\ trText.chars # <<>>
  /\ trResult = [state |-> "resolved", value |-> trText]

(***************************************************************************)
(* Loading the transcript through the cache (SpecLoad).                    *)
(***************************************************************************)
\* the record read from the cache holds a non-empty transcript
HoldsTranscript(entry) == entry # Null /\ Len(entry.data) > 0
\* load number k was started by opening the page and no load was started
\* after it, so no other load acts while it runs or after it
Alone(k) == k = Len(loads) /\ loads[k].start = "mount"
\* the cache is consulted before the network: a load that read a non-empty
\* transcript requests nothing and shows it, every other load requests the
\* network once its read has settled
CacheFirst(l, k) ==
  /\ l.requested => l.read # "pending"
  /\ HoldsTranscript(l.cached) => (~l.requested /\ l.pc = "done" /\ l.data = <<>>)
  /\ (HoldsTranscript(l.cached) /\ Alone(k)) => (transcript = l.cached.data /\ ~loading)
  /\ (l.read # "pending" /\ ~HoldsTranscript(l.cached)) => l.requested

\* C19 as stated: the cache is consulted first, and after every successful
\* non-empty response the transcript is in the cache under the same videoId,
\* so every later opening of that video is served from the cache.
C19_AsStated ==
  \A k \in 1..Len(loads) :
    LET l == loads[k]
    IN  /\ CacheFirst(l, k)
        /\ (l.pc = "done" /\ l.data # <<>>) => cache[l.vid] = CacheEntry(l.vid, l.data)
        /\ \A j \in (k + 1)..Len(loads) :
             (l.data # <<>> /\ loads[j].start = "mount" /\ loads[j].vid = l.vid
              /\ loads[j].read # "pending") => HoldsTranscript(loads[j].cached)

\* C19, amended: the cache is consulted first; a load whose read succeeds with
\* a non-empty transcript shows it and requests nothing, every other load
\* requests the network; after a successful non-empty response whose cache
\* write succeeds the cache holds the transcript under the same videoId, and a
\* later opening of that video whose cache read succeeds is served from it.
C19_CacheBeforeNetwork ==
  \A k \in 1..Len(loads) :
    LET l == loads[k]
    IN  /\ CacheFirst(l, k)
        /\ l.write # "none" => (l.requested /\ l.data # <<>>)
        /\ l.write = "ok" => cache[l.vid] = CacheEntry(l.vid, l.data)
        /\ \A j \in (k + 1)..Len(loads) :
             (l.write = "ok" /\ loads[j].start = "mount" /\ loads[j].vid = l.vid
              /\ loads[j].read = "ok") =>
               (HoldsTranscript(loads[j].cached) /\ ~loads[j].requested)
\* a video that was not cached was loaded from the network and stored, and
\* its next opening was served from the cache
C19_Witness ==
  /\ Len(loads) = 2
  /\ loads[1].cached = Null /\ loads[1].requested /\ loads[1].write = "ok"
  /\ loads[2].vid = loads[1].vid /\ loads[2].start = "mount"
  /\ loads[2].pc = "done" /\ ~loads[2].requested
  /\ transcript = loads[1].data /\ transcript # <<>>
  /\ ~loading /\ error = Null

\* C20: a failure of the cache never keeps the transcript from being shown: a
\* failed cache read is followed by the network request, and after a failed
\* cache write the transcript stays set and error stays null.
C20_CacheFailureHarmless ==
  \A k \in 1..Len(loads) :
    LET l == loads[k]
    IN  /\ l.read = "failed" => l.requested
        /\ (l.write = "failed" /\ Alone(k)) => (transcript = l.data /\ error = Null)

(***************************************************************************)
(* translateBatch (SpecBatch).                                             *)
(***************************************************************************)
\* the translateText calls that have been started and have not resolved
InFlight == {j \in 1..Len(batchCalls) : batchCalls[j] = Null}
\* the number of batches that n texts make
BatchCount(n) == (n + 2) \div 3

\* C21: translateBatch resolves to an array as long as texts whose i-th
\* element is what translateText(texts[i]) resolved to, whatever the order of
\* completion; at most 3 calls are in flight, a batch starts only after every
\* call of the batch before has resolved, and a delay is awaited between
\* batches but not after the last.
C21_BatchInOrder ==
  /\ Cardinality(InFlight) <= 3
  /\ \A j \in InFlight : j > batchI /\ batchPc = "await"
  /\ Len(batchCalls) <= batchI + 3
  /\ \A k \in 1..Len(batchResults) :
       batchResults[k] = batchCalls[k] /\ batchResults[k] \in Translations(batchTexts[k])
  /\ batchPc = "done" => Len(batchResults) = Len(batchTexts)
  /\ batchPc = "delay" => batchI + 3 < Len(batchTexts)
  /\ Len(batchDelays) =
       CASE batchPc = "delay" -> batchI \div 3 + 1
         [] batchI >= Len(batchTexts) /\ batchTexts # <<>> -> BatchCount(Len(batchTexts)) - 1
         [] OTHER -> batchI \div 3
\* the three calls of a first batch resolved last-first-second to different
\* results, the results were pushed in the order of the texts, and the delay
\* before the second batch is running
C21_Witness ==
  /\ Len(batchTexts) = 4
  /\ batchPc = "delay"
  /\ batchOrder = <<2, 0, 1>>
  /\ batchResults = SubSeq(batchCalls, 1, 3)
  /\ batchResults[1] # batchResults[3]
  /\ Len(batchDelays) = 1
(***************************************************************************)
(* C22: getYoutubeTranscript calls the Python service first and calls the  *)
(* direct method exactly when the Python call threw; when the source that  *)
(* answered gave no segment, or no segment whose trimmed text is not       *)
(* empty, the call rejects; a resolved call holds at least one segment and *)
(* no segment with empty text.                                             *)
(***************************************************************************)
CalledRaw == \E k \in 1..Len(ytCalls) : ytCalls[k] = "raw"
PythonThrew == ytResponses # <<>> /\ ytResponses[1].do = "throw"
Answered == ytResponses[Len(ytResponses)]
NoTextLeft(t) == \A k \in 1..Len(t) : \A c \in 1..Len(t[k].text) : t[k].text[c] \in Whitespace

C22_PythonFirstNeverEmpty ==
  /\ ytCalls # <<>> => ytCalls[1] = "python"
  /\ ytResponses # <<>> => (CalledRaw <=> PythonThrew)
  /\ ytResponses = <<>> => ~CalledRaw
  /\ ytPc = "done" =>
       /\ ytResult # Null
       /\ (Answered.do = "throw") => ytResult.state = "rejected"
       /\ (Answered.do = "return" /\ NoTextLeft(Answered.value)) =>
            ytResult.state = "rejected"
       /\ ytResult.state = "resolved" =>
            /\ ytResult.value # <<>>
            /\ \A k \in 1..Len(ytResult.value) : ytResult.value[k].text # <<>>

\* the Python service answered a segment of blanks beside a segment with text
C22_Witness ==
  /\ ytPc = "done"
  /\ ytCalls = <<"python">>
  /\ ytResult.state = "resolved"
  /\ \E k \in 1..Len(Answered.value) : Answered.value[k].text = <<" ">>

(***************************************************************************)
(* C23: for a segment with duration >= 0 the time allotted to its words    *)
(* adds up to duration * (sum of token lengths) / (length of the text);    *)
(* the sum never exceeds the duration and, for a positive duration, equals *)
(* it only when the text has no whitespace; a segment of two or more words *)
(* with a positive duration has a non-empty tail [last word's end, start + *)
(* duration) in which none of its words is active.                         *)
(***************************************************************************)
RECURSIVE TotalAllottedFrom(_, _)
TotalAllottedFrom(words, k) ==
  IF k > Len(words) THEN Zero
  ELSE RAdd(AllottedDuration(words[k]), TotalAllottedFrom(words, k + 1))

TotalAllotted == TotalAllottedFrom(estResult, 1)
\* the sum of the token lengths: the characters that are not whitespace
TokenLengthSum(text) == Cardinality({i \in 1..Len(text) : text[i] \notin Whitespace})
HasWhitespace(text) == \E i \in 1..Len(text) : text[i] \in Whitespace
SegmentEnd == RAdd(estSegment.start, estSegment.duration)

\* the parts of the statement that hold for every duration >= 0
C23_SumAndTail ==
  /\ Len(estSegment.text) > 0 =>
       RMul(TotalAllotted, FromInt(Len(estSegment.text))) =
         RMul(estSegment.duration, FromInt(TokenLengthSum(estSegment.text)))
  /\ RLe(TotalAllotted, estSegment.duration)
  /\ (Len(estResult) >= 2 /\ RLt(Zero, estSegment.duration)) =>
       LET last == estResult[Len(estResult)]
       IN  /\ RLt(last.end, SegmentEnd)
           /\ \A k \in 1..Len(estResult) :
                /\ RLe(estResult[k].end, last.end)
                /\ ~isActiveAt(estResult[k], last.end)

NoNegativeDuration(tr) == \A k \in 1..Len(tr) : RLe(Zero, tr[k].duration)
SegmentPlaying(seg, t) == RLe(seg.start, t) /\ RLt(t, RAdd(seg.start, seg.duration))

C24_WordWithinPlayingSegment ==
  (NoNegativeDuration(transcript) /\ activeWordIndex >= 0) =>
    LET s == wordTimestamps[activeWordIndex + 1].segmentIndex
    IN  /\ s \in 0..(Len(transcript) - 1)
        /\ SegmentPlaying(transcript[s + 1], currentTime)

\* a word of the second segment is highlighted after a first segment without words
C24_Witness ==
  /\ Len(transcript) = 2
  /\ NoNegativeDuration(transcript)
  /\ TokenCount(transcript[1].text) = 0
  /\ transcript[1].start # transcript[2].start
  /\ activeWordIndex >= 0
  /\ wordTimestamps[activeWordIndex + 1].segmentIndex = 1
  /\ SegmentPlaying(transcript[2], currentTime)

(***************************************************************************)
(* C25: no successful save is lost.  Once every handleSaveWord and         *)
(* handleDeleteWord call of the page has completed, savedWords holds every *)
(* word whose save succeeded and that no completed delete removed, also    *)
(* when the calls overlapped; and when nobody is signed in the local entry *)
(* vocabulary_<videoId> holds the same list.                               *)
(***************************************************************************)
SaveSucceeded(k) == vocOps[k].kind = "save" /\ vocOps[k].pc = "done"
DeletedById(id) ==
  \E d \in 1..Len(vocOps) :
    vocOps[d].kind = "delete" /\ vocOps[d].pc = "done" /\ vocOps[d].target = id
Shown(id) == \E i \in 1..Len(savedWords) : savedWords[i].id = id
\* some call was started while an earlier one had not completed
SomeOverlap == \E k \in 1..Len(vocOps) : vocOps[k].overlaps

C25_NoSavedWordLost ==
  (SomeOverlap /\ allSettled) =>
    /\ \A k \in 1..Len(vocOps) :
         (SaveSucceeded(k) /\ ~DeletedById(vocOps[k].made)) => Shown(vocOps[k].made)
    /\ (session = "anon" /\ \E k \in 1..Len(vocOps) : vocOps[k].pc = "done") =>
         (stored.present /\ stored.value = savedWords)

(***************************************************************************)
(* C29: the vocabulary of a signed-in user lives only in the remote table. *)
(* No save or delete of a signed-in user writes the local entry            *)
(* vocabulary_<videoId>, and a page load without a signed-in user never    *)
(* shows a word that was saved through the table.                          *)
(***************************************************************************)
C29_AuthenticatedNeverLocal ==
  /\ ~authWrote
  /\ \A i \in 1..Len(stored.value) : stored.value[i].id.src # "remote"
  /\ session = "anon" => \A i \in 1..Len(savedWords) : savedWords[i].id.src # "remote"

(***************************************************************************)
(* C26: when videoId changes from A to B while the load of A is still      *)
(* running, the transcript shown once both loads have completed is B's     *)
(* (the late answer for A does not replace it), and loading is not false   *)
(* while the load of B is still running.                                   *)
(***************************************************************************)
\* the transcript a load obtained, from the cache or from the network
Loaded(l) == IF HoldsTranscript(l.cached) THEN l.cached.data ELSE l.data
AllLoadsDone == \A k \in 1..Len(loads) : loads[k].pc = "done"

C26_LateResponseIgnored ==
  (Len(loads) >= 2 /\ loads[Len(loads)].during) =>
    LET b == loads[Len(loads)]
    IN  /\ (AllLoadsDone /\ Loaded(b) # <<>>) => transcript = Loaded(b)
        /\ b.pc # "done" => loading

(***************************************************************************)
(* C27: whenever the flashcard view is rendered (showFlashcards true and   *)
(* filteredWords not empty) currentCardIndex is a position of              *)
(* filteredWords: 0 <= currentCardIndex < filteredWords.length, whatever   *)
(* next and previous steps, closings and reopenings of the flashcards,     *)
(* search terms and deletions came before.                                 *)
(***************************************************************************)
C27_CardIndexInRange ==
  (showFlashcards /\ Len(filteredWords) > 0) =>
    (0 <= currentCardIndex /\ currentCardIndex < Len(filteredWords))

(***************************************************************************)
(* C28: starting from an empty list, after any sequence of addVideo calls  *)
(* the list holds the most recently added distinct videoIds, newest first, *)
(* cut to 10: no videoId twice, never more than 10 entries, the last added *)
(* video first, and the localStorage copy equal to the list.               *)
(***************************************************************************)
\* the position of the last call that added v
LastAdded(v) == CHOOSE k \in 1..Len(added) : added[k] = v /\ \A j \in (k + 1)..Len(added) : added[j] # v
AddedIds == {added[k] : k \in 1..Len(added)}
\* how many distinct videoIds were added after the last call that added v
NewerThan(v) == Cardinality({w \in AddedIds : LastAdded(w) > LastAdded(v)})

C28_MostRecentDistinct ==
  /\ Len(recentVideos) <= 10
  /\ Len(recentVideos) = Min(Cardinality(AddedIds), 10)
  /\ \A i, j \in 1..Len(recentVideos) :
       i # j => recentVideos[i].videoId # recentVideos[j].videoId
  /\ \A i \in 1..Len(recentVideos) :
       /\ recentVideos[i].videoId \in AddedIds
       /\ NewerThan(recentVideos[i].videoId) = i - 1
  /\ added # <<>> =>
       /\ recentVideos[1].videoId = added[Len(added)]
       /\ recentStored.present
       /\ recentStored.value = recentVideos

\* an eleventh video pushed the oldest one out, and an opened video moved up
C28_Witness ==
  /\ Cardinality(AddedIds) = 11
  /\ Len(recentVideos) = 10
  /\ Len(added) = 12
  /\ added[12] = added[2]
  /\ \A i \in 1..10 : recentVideos[i].videoId # added[1]

====
